---------------------------- MODULE Spec2Model ----------------------------
(***************************************************************************)
(* A model of ai-media-organizer (src/main.py, src/src/*.py).               *)
(*                                                                         *)
(* Text is modelled at character level: a Python str is a sequence of      *)
(* Unicode code points, so that the regular expressions of the two         *)
(* idempotency guards, the CJK test, str.strip, str(int), os.path.splitext  *)
(* and the f-strings of the naming engine are computed the way the code    *)
(* computes them.  Python's None is the one-element sequence << -1 >>,     *)
(* which is no string (no code point is negative).                         *)
(***************************************************************************)
EXTENDS Integers, Sequences, FiniteSets, TLC

VARIABLES
    \* ---- naming engine / idempotency guards (pure functions) ----
    movie_info,       \* the MovieInfo handed to the naming engine
    show_info,        \* the TVShowInfo handed to the naming engine
    ai_parsed_info,   \* the ParsedInfo hint (or absent)
    folder_name,      \* the last generated folder name (None before)
    name_kind,        \* "none" | "movie" | "tv": which generator produced it
    \* ---- the organizer and the filesystem it acts on ----
    dry_run,          \* FileOrganizer.dry_run
    country_folder,   \* FileOrganizer.country_folder
    operations,       \* FileOrganizer.operations: the ordered log of planned moves
    fs,               \* the filesystem: [files: path -> content, dirs: set of paths]
    fs0,              \* the filesystem at construction (history)
    moves,            \* the moves shutil.move has performed, in order (history)
    last,             \* the last call and what it returned (history)
    \* ---- a call in progress ----
    pc,               \* where the running call stands
    locals,           \* its local variables
    requests          \* the requests sent to the metadata provider, with the answers (history)

nameVars == <<movie_info, show_info, ai_parsed_info, folder_name, name_kind>>
orgVars == <<dry_run, country_folder, operations, fs, fs0, moves, last>>
procVars == <<pc, locals, requests>>

vars == <<movie_info, show_info, ai_parsed_info, folder_name, name_kind,
          dry_run, country_folder, operations, fs, fs0, moves, last,
          pc, locals, requests>>

-----------------------------------------------------------------------------
(* Python values *)

None == << -1 >>

\* bool(s) for a str-or-None value
Truthy(s) == s # None /\ s # <<>>

\* s or d
OrElse(s, d) == IF Truthy(s) THEN s ELSE d

\* str(x) for a str-or-None value x (f-string interpolation of None gives "None")
StrOf(s) == IF s = None THEN <<78, 111, 110, 101>> ELSE s

RECURSIVE DecDigits(_)
\* str(n) for an int n >= 0
DecDigits(n) ==
    IF n < 10 THEN << 48 + n >>
    ELSE DecDigits(n \div 10) \o << 48 + (n % 10) >>

\* str(n) for any int
StrInt(n) == IF n < 0 THEN <<45>> \o DecDigits(0 - n) ELSE DecDigits(n)

\* Python str.isspace for the characters of the model
IsSpaceChar(c) == c \in {32, 9, 10, 11, 12, 13}

RECURSIVE LStrip(_)
LStrip(s) ==
    IF s # <<>> /\ IsSpaceChar(Head(s)) THEN LStrip(Tail(s)) ELSE s

RECURSIVE RStrip(_)
RStrip(s) ==
    IF s # <<>> /\ IsSpaceChar(s[Len(s)]) THEN RStrip(SubSeq(s, 1, Len(s) - 1)) ELSE s

\* s.strip()
Strip(s) == RStrip(LStrip(s))

RECURSIVE JoinWith(_, _)
\* sep.join(parts)
JoinWith(sep, parts) ==
    IF parts = <<>> THEN <<>>
    ELSE IF Len(parts) = 1 THEN parts[1]
    ELSE parts[1] \o sep \o JoinWith(sep, Tail(parts))

-----------------------------------------------------------------------------
(* Text classifier: organizer.py _is_chinese_text (matcher.py has the same) *)

IsChineseChar(c) == (19968 <= c /\ c <= 40959) \/ (13312 <= c /\ c <= 19903)

_is_chinese_text(text) ==
    IF ~Truthy(text) THEN FALSE
    ELSE \E i \in 1..Len(text) : IsChineseChar(text[i])

-----------------------------------------------------------------------------
(* Regular expressions, as far as the guards use them: a pattern is a      *)
(* sequence of atoms, an atom a character class with a repetition range    *)
(* (hi = -1: unbounded).  ReFullMatch(p, s) is re.match('^' p '$', s).       *)

AnyCls == [kind |-> "any", ch |-> 0]
DigitCls == [kind |-> "digit", ch |-> 0]
LitCls(c) == [kind |-> "lit", ch |-> c]

InClass(c, cls) ==
    CASE cls.kind = "any" -> c # 10            \* '.' matches all but newline
      [] cls.kind = "digit" -> 48 <= c /\ c <= 57
      [] cls.kind = "space" -> IsSpaceChar(c)  \* \s
      [] OTHER -> c = cls.ch

ReLit(s) == [i \in 1..Len(s) |-> [cls |-> LitCls(s[i]), lo |-> 1, hi |-> 1]]
ReStar(cls) == << [cls |-> cls, lo |-> 0, hi |-> -1] >>
RePlus(cls) == << [cls |-> cls, lo |-> 1, hi |-> -1] >>
ReRep(cls, n) == << [cls |-> cls, lo |-> n, hi |-> n] >>

RECURSIVE ReMatchFrom(_, _, _, _)
ReMatchFrom(pat, pi, s, si) ==
    IF pi > Len(pat)
    THEN \* '$': at the end, or just before a final newline
         si = Len(s) + 1 \/ (si = Len(s) /\ s[si] = 10)
    ELSE LET a == pat[pi]
             rest == Len(s) - si + 1
             top == IF a.hi = -1 \/ a.hi > rest THEN rest ELSE a.hi
         IN  \E k \in a.lo..top :
                /\ \A j \in 0..(k - 1) : InClass(s[si + j], a.cls)
                /\ ReMatchFrom(pat, pi + 1, s, si + k)

ReFullMatch(pat, s) == ReMatchFrom(pat, 1, s, 1)


-----------------------------------------------------------------------------
(* Idempotency guard of the directory scan: scanner.py _is_organized_folder *)

ReTitle == ReLit(<<91>>) \o ReStar(AnyCls) \o ReLit(<<93>>)     \* \[.*\]
ReDash == ReLit(<<45>>)                                         \* -
ReYear4 == ReRep(DigitCls, 4)                                   \* \d{4}
ReDigits == RePlus(DigitCls)                                    \* \d+
ReTT == ReLit(<<116, 116>>) \o RePlus(DigitCls)                 \* tt\d+
ReUnknown == ReLit(<<117, 110, 107, 110, 111, 119, 110>>)       \* unknown

\* the three patterns, the group (tt\d+|unknown) expanded into its two branches
ScannerPatterns ==
    UNION { { ReTitle \o ReDash \o ReTitle \o ReDash \o ReYear4 \o ReDash \o imdb \o ReDash \o ReDigits,
              ReTitle \o ReDash \o ReYear4 \o ReDash \o imdb \o ReDash \o ReDigits,
              ReTitle \o ReDash \o ReTitle \o ReDash \o imdb \o ReDash \o ReDigits }
            : imdb \in {ReTT, ReUnknown} }

Scanner_is_organized_folder(name) ==
    \E p \in ScannerPatterns : ReFullMatch(p, name)

(* Idempotency guard of the cleanup pass: organizer.py _is_organized_folder *)

OrganizerPatterns ==
    { ReTitle \o ReDash \o ReTitle \o ReDash \o ReYear4 \o ReDash \o ReTT \o ReDash \o ReDigits,
      ReTitle \o ReDash \o ReTitle \o ReDash \o ReYear4 \o ReDash \o ReDigits,
      ReTitle \o ReDash \o ReYear4 \o ReDash \o ReTT \o ReDash \o ReDigits,
      ReTitle \o ReDash \o ReYear4 \o ReDash \o ReDigits,
      ReTitle \o ReDash \o ReTitle \o ReDash \o ReTT \o ReDash \o ReDigits,
      ReTitle \o ReDash \o ReTitle \o ReDash \o ReDigits,
      ReTitle \o ReDash \o ReTT \o ReDash \o ReDigits,
      ReTitle \o ReDash \o ReDigits }

Organizer_is_organized_folder(name) ==
    \E p \in OrganizerPatterns : ReFullMatch(p, name)

-----------------------------------------------------------------------------
(* Naming engine: organizer.py *)

S_unknown == <<117, 110, 107, 110, 111, 119, 110>>      \* 'unknown'
Bracket(s) == <<91>> \o s \o <<93>>                     \* f"[{s}]"

\* mutant of MovieSecondTitle: the provider's title tried first in both branches
MovieSecondTitle_ProviderFirst(mi, ai) ==
    LET original_title == OrElse(mi.original_title, <<>>)
        tmdb_title == OrElse(mi.title, <<>>)
    IN  IF _is_chinese_text(original_title)
        THEN IF Truthy(tmdb_title) /\ ~_is_chinese_text(tmdb_title)
             THEN tmdb_title
             ELSE IF ai.present /\ Truthy(ai.original_title)
                     /\ ~_is_chinese_text(ai.original_title)
             THEN ai.original_title
             ELSE <<>>
        ELSE IF Truthy(tmdb_title) /\ tmdb_title # original_title
                     /\ _is_chinese_text(tmdb_title)
             THEN tmdb_title
             ELSE IF ai.present /\ Truthy(ai.title) /\ _is_chinese_text(ai.title)
             THEN ai.title
             ELSE <<>>

\* the second title of a movie folder name (organizer.py 552-573)
MovieSecondTitle(mi, ai) ==
    LET original_title == OrElse(mi.original_title, <<>>)
        tmdb_title == OrElse(mi.title, <<>>)
    IN  IF _is_chinese_text(original_title)
        THEN IF Truthy(tmdb_title) /\ ~_is_chinese_text(tmdb_title)
             THEN tmdb_title
             ELSE IF ai.present /\ Truthy(ai.original_title)
                     /\ ~_is_chinese_text(ai.original_title)
             THEN ai.original_title
             ELSE <<>>
        ELSE IF ai.present /\ Truthy(ai.title) /\ _is_chinese_text(ai.title)
             THEN ai.title
             ELSE IF Truthy(tmdb_title) /\ tmdb_title # original_title
                     /\ _is_chinese_text(tmdb_title)
             THEN tmdb_title
             ELSE <<>>

\* mutant of IdParts: the comparison with 'unknown' forgotten
IdParts_KeepUnknown(imdb_id, tmdb_id) ==
    (IF Truthy(imdb_id) /\ Strip(imdb_id) # <<>> THEN <<imdb_id>> ELSE <<>>)
    \o (IF Truthy(tmdb_id) /\ Strip(tmdb_id) # <<>> THEN <<tmdb_id>> ELSE <<>>)

\* the id segments appended after the title part (organizer.py 581-584, 797-800)
IdParts(imdb_id, tmdb_id) ==
    (IF Truthy(imdb_id) /\ Strip(imdb_id) # <<>> /\ imdb_id # S_unknown
     THEN <<imdb_id>> ELSE <<>>)
    \o (IF Truthy(tmdb_id) /\ Strip(tmdb_id) # <<>> THEN <<tmdb_id>> ELSE <<>>)

\* the year segment(s) of a movie folder name (organizer.py 579)
MovieYearParts(year) == << StrInt(year) >>

_generate_movie_folder_name(mi, ai) ==
    LET original_title == OrElse(mi.original_title, <<>>)
        second_title == MovieSecondTitle(mi, ai)
        name_part == IF second_title # <<>>
                     THEN Bracket(original_title) \o <<45>> \o Bracket(second_title)
                     ELSE Bracket(original_title)
        parts == <<name_part>> \o MovieYearParts(mi.year)
                 \o IdParts(mi.imdb_id, mi.tmdb_id)
    IN  JoinWith(<<45>>, parts)

_generate_tv_folder_name(si, ai) ==
    LET tmdb_original_name == OrElse(si.original_name, <<>>)
        tmdb_name == OrElse(si.name, <<>>)
        secondary_title ==
            IF _is_chinese_text(tmdb_original_name)
            THEN IF Truthy(tmdb_name) /\ ~_is_chinese_text(tmdb_name)
                 THEN tmdb_name
                 ELSE IF ai.present /\ Truthy(ai.original_title)
                         /\ ~_is_chinese_text(ai.original_title)
                 THEN ai.original_title
                 ELSE <<>>
            ELSE IF ai.present /\ Truthy(ai.title) /\ _is_chinese_text(ai.title)
                 THEN ai.title
                 ELSE IF Truthy(tmdb_name) /\ tmdb_name # tmdb_original_name
                         /\ _is_chinese_text(tmdb_name)
                 THEN tmdb_name
                 ELSE <<>>
        name_part == IF secondary_title # <<>>
                     THEN Bracket(tmdb_original_name) \o <<45>> \o Bracket(secondary_title)
                     ELSE Bracket(tmdb_original_name)
        id_parts == IdParts(si.imdb_id, si.tmdb_id)
    IN  IF id_parts # <<>>
        THEN name_part \o <<45>> \o JoinWith(<<45>>, id_parts)
        ELSE name_part

-----------------------------------------------------------------------------
(* re.search(pattern, text, re.IGNORECASE) for the patterns of the video-info    *)
(* extractor: a pattern "(A|B|C)" is the sequence of its alternatives, each a    *)
(* sequence of atoms.  ReMatchEnd gives the index after the match the            *)
(* backtracking matcher prefers (greedy repetition), 0 when there is none.       *)

LowerChar(c) == IF 65 <= c /\ c <= 90 THEN c + 32 ELSE c
UpperChar(c) == IF 97 <= c /\ c <= 122 THEN c - 32 ELSE c
Upper(s) == [i \in 1..Len(s) |-> UpperChar(s[i])]
Lower(s) == [i \in 1..Len(s) |-> LowerChar(s[i])]

\* sub in s
Contains(s, sub) ==
    \E i \in 1..(Len(s) - Len(sub) + 1) : SubSeq(s, i, i + Len(sub) - 1) = sub

\* a literal under re.IGNORECASE
ReILit(s) == [i \in 1..Len(s) |-> [cls |-> [kind |-> "ilit", ch |-> LowerChar(s[i])],
                                   lo |-> 1, hi |-> 1]]
ReRange(cls, lo, hi) == << [cls |-> cls, lo |-> lo, hi |-> hi] >>

InClassI(c, cls) ==
    IF cls.kind = "ilit" THEN LowerChar(c) = cls.ch ELSE InClass(c, cls)

RECURSIVE ReMatchEnd(_, _, _, _)
RECURSIVE ReTryRepeat(_, _, _, _, _)
\* atom pi repeated k times at si, then the rest of the pattern; on failure one
\* repetition fewer (backtracking)
ReTryRepeat(pat, pi, s, si, k) ==
    IF k < pat[pi].lo THEN 0
    ELSE LET e == ReMatchEnd(pat, pi + 1, s, si + k)
         IN  IF e # 0 THEN e ELSE ReTryRepeat(pat, pi, s, si, k - 1)

ReMatchEnd(pat, pi, s, si) ==
    IF pi > Len(pat) THEN si
    ELSE LET a == pat[pi]
             rest == Len(s) - si + 1
             top == IF a.hi = -1 \/ a.hi > rest THEN rest ELSE a.hi
             \* the longest run the atom can take
             bad == { k \in 1..top : ~InClassI(s[si + k - 1], a.cls) }
             run == IF bad = {} THEN top
                    ELSE (CHOOSE k \in bad : \A k2 \in bad : k <= k2) - 1
         IN  ReTryRepeat(pat, pi, s, si, run)

\* the end of the match of "(alts[1]|alts[2]|...)" at position si, 0 if none
AltMatchEnd(alts, s, si) ==
    LET first(ends) ==
            LET hits == { n \in 1..Len(alts) : ends[n] # 0 }
            IN  IF hits = {} THEN 0 ELSE ends[CHOOSE n \in hits : \A m \in hits : n <= m]
    IN  first([n \in 1..Len(alts) |-> ReMatchEnd(alts[n], 1, s, si)])

\* the leftmost match that starts at i or later
ReSearchFrom(alts, s, i) ==
    LET starts == { j \in i..(Len(s) + 1) : AltMatchEnd(alts, s, j) # 0 }
        first == CHOOSE j \in starts : \A j2 \in starts : j <= j2
    IN  IF starts = {} THEN None ELSE SubSeq(s, first, AltMatchEnd(alts, s, first) - 1)

\* match.group(1) of re.search, None when the pattern matches nowhere
ReSearchGroup(alts, s) == ReSearchFrom(alts, s, 1)

-----------------------------------------------------------------------------
(* Video-info extractor: organizer.py _extract_video_info_from_filename *)

resolution_patterns ==
    << << ReRange(DigitCls, 3, 4) \o ReILit(<<112>>) >>,
       << ReILit(<<52, 75>>) >>,
       << ReILit(<<72, 68>>) >>,
       << ReILit(<<85, 72, 68>>) >>,
       << ReILit(<<50, 49, 54, 48, 112>>) >>,
       << ReILit(<<49, 52, 52, 48, 112>>) >>,
       << ReILit(<<49, 48, 56, 48, 112>>) >>,
       << ReILit(<<55, 50, 48, 112>>) >>,
       << ReILit(<<52, 56, 48, 112>>) >> >>

format_patterns ==
    << << ReILit(<<66, 108, 117, 82, 97, 121>>), ReILit(<<66, 108, 117, 45, 114, 97, 121>>), ReILit(<<66, 68>>) >>,
       << ReILit(<<87, 69, 66, 45, 68, 76>>), ReILit(<<87, 69, 66, 68, 76>>), ReILit(<<87, 69, 66>>) >>,
       << ReILit(<<68, 86, 68, 82, 105, 112>>), ReILit(<<68, 86, 68>>) >>,
       << ReILit(<<66, 82, 82, 105, 112>>), ReILit(<<66, 68, 82, 105, 112>>) >>,
       << ReILit(<<72, 68, 82, 105, 112>>) >>,
       << ReILit(<<67, 65, 77>>), ReILit(<<84, 83>>), ReILit(<<84, 67>>) >> >>

codec_patterns ==
    << << ReILit(<<120, 50, 54, 52>>), ReILit(<<120, 50, 54, 53>>), ReILit(<<104, 50, 54, 52>>), ReILit(<<104, 50, 54, 53>>),
          ReILit(<<72, 69, 86, 67>>), ReILit(<<65, 86, 67>>) >>,
       << ReILit(<<68, 105, 118, 88>>), ReILit(<<88, 118, 105, 68>>) >>,
       << ReILit(<<86, 80, 57>>), ReILit(<<65, 86, 49>>) >> >>

audio_patterns ==
    << << ReILit(<<68, 84, 83>>), ReILit(<<65, 67, 51>>), ReILit(<<65, 65, 67>>), ReILit(<<77, 80, 51>>),
          ReILit(<<70, 76, 65, 67>>), ReILit(<<68, 68, 53, 46, 49>>), ReILit(<<68, 68, 80, 53, 46, 49>>) >>,
       << ReILit(<<53, 46, 49>>), ReILit(<<55, 46, 49>>), ReILit(<<50, 46, 48>>) >>,
       << ReILit(<<65, 116, 109, 111, 115>>) >> >>

\* the last pattern that matches is kept
_extract_first_match_LastPattern(text, patterns) ==
    LET last_(groups) ==
            LET hits == { n \in 1..Len(patterns) : groups[n] # None }
            IN  IF hits = {} THEN None
                ELSE groups[CHOOSE n \in hits : \A m \in hits : n >= m]
    IN  last_([n \in 1..Len(patterns) |-> ReSearchGroup(patterns[n], text)])

_extract_first_match(text, patterns) ==
    LET first(groups) ==
            LET hits == { n \in 1..Len(patterns) : groups[n] # None }
            IN  IF hits = {} THEN None
                ELSE groups[CHOOSE n \in hits : \A m \in hits : n <= m]
    IN  first([n \in 1..Len(patterns) |-> ReSearchGroup(patterns[n], text)])

\* the resolution after the special case of organizer.py 710-711
ForcedResolution(filename, resolution) ==
    IF Contains(Upper(filename), <<52, 75>>) \/ Contains(filename, <<50, 49, 54, 48, 112>>)
    THEN <<50, 49, 54, 48, 112>>
    ELSE resolution

_extract_video_info_from_filename(filename) ==
    LET bit_depth == IF \E x \in { <<49, 48, 98, 105, 116>>, <<49, 48, 45, 98, 105, 116>>, <<120, 50, 54, 53>>, <<72, 69, 86, 67>> } :
                            Contains(filename, x)
                     THEN <<49, 48, 98, 105, 116>> ELSE <<56, 98, 105, 116>>
        \* found: what _extract_first_match finds for the four pattern lists
        info(found) ==
            ForcedResolution(filename, OrElse(found[1], <<49, 48, 56, 48, 112>>)) \o <<45>>
            \o OrElse(found[2], <<87, 69, 66, 45, 68, 76>>) \o <<45>> \o OrElse(found[3], <<120, 50, 54, 52>>)
            \o <<45>> \o bit_depth \o <<45>> \o OrElse(found[4], <<65, 65, 67>>)
    IN  info([k \in 1..4 |->
                 _extract_first_match(filename,
                     << resolution_patterns, format_patterns, codec_patterns,
                        audio_patterns >>[k])])

-----------------------------------------------------------------------------
(* The filesystem.  A path is the sequence of its components (each a string), *)
(* so os.path.join(d, n) is Append(d, n), os.path.dirname drops the last      *)
(* component and os.path.basename is the last one.  Every entry's parent is   *)
(* a directory.                                                               *)

PathJoin(d, n) == Append(d, n)
DirName(p) == SubSeq(p, 1, Len(p) - 1)
BaseName(p) == p[Len(p)]
IsPathPrefix(a, p) == Len(a) <= Len(p) /\ SubSeq(p, 1, Len(a)) = a
PathPrefixes(p) == { SubSeq(p, 1, k) : k \in 1..Len(p) }

FsIsFile(f, p) == p \in DOMAIN f.files
FsIsDir(f, p) == p \in f.dirs
FsExists(f, p) == FsIsFile(f, p) \/ FsIsDir(f, p)

\* os.listdir(d): the names of d's entries
FsListDir(f, d) ==
    { BaseName(p) : p \in { q \in (DOMAIN f.files) \cup f.dirs : Len(q) = Len(d) + 1 /\ IsPathPrefix(d, q) } }

\* os.makedirs(d, exist_ok=True): raises when a component is a file
FsMakeDirs(f, d) ==
    IF \E q \in PathPrefixes(d) : FsIsFile(f, q)
    THEN [ok |-> FALSE, fs |-> f]
    ELSE [ok |-> TRUE, fs |-> [f EXCEPT !.dirs = @ \cup PathPrefixes(d)]]

\* writing a file with open(p, 'w'): creates or truncates; raises on a directory or
\* a missing parent
FsWrite(f, p, content) ==
    IF FsIsDir(f, p) \/ ~FsIsDir(f, DirName(p))
    THEN [ok |-> FALSE, fs |-> f]
    ELSE [ok |-> TRUE,
          fs |-> [f EXCEPT !.files = [q \in (DOMAIN f.files) \cup {p} |->
                                         IF q = p THEN content ELSE f.files[q]]]]

\* os.rename(src, dst) of an existing src onto a dst that is no directory
FsRename(f, src, dst) ==
    LET moved(q) == dst \o SubSeq(q, Len(src) + 1, Len(q))
        goneF == { q \in DOMAIN f.files : IsPathPrefix(src, q) }
        goneD == { q \in f.dirs : IsPathPrefix(src, q) }
        keptF == (DOMAIN f.files) \ (goneF \cup {dst})
        newF == { moved(q) : q \in goneF }
    IN  [files |-> [q \in keptF \cup newF |->
                       IF q \in newF
                       THEN f.files[CHOOSE r \in goneF : moved(r) = q]
                       ELSE f.files[q]],
         dirs |-> (f.dirs \ goneD) \cup { moved(q) : q \in goneD }]

\* shutil.move(src, dst).  io_error: the operating system refuses (permission
\* denied, disk full).  A file moved onto an existing file replaces it.
ShutilMove(f, src, dst, io_error) ==
    LET real_dst == IF FsIsDir(f, dst) THEN PathJoin(dst, BaseName(src)) ELSE dst
        raises ==
            \/ io_error
            \/ ~FsExists(f, src)
            \/ (FsIsDir(f, dst) /\ FsExists(f, real_dst))
            \/ ~FsIsDir(f, DirName(real_dst))
            \/ (FsIsDir(f, src) /\ FsIsFile(f, real_dst))
            \/ (FsIsDir(f, src) /\ IsPathPrefix(src, real_dst))
    IN  IF raises THEN [ok |-> FALSE, fs |-> f, to |-> real_dst]
        ELSE [ok |-> TRUE, fs |-> FsRename(f, src, real_dst), to |-> real_dst]

-----------------------------------------------------------------------------
(* Plan/execute engine: organizer.py _execute_move *)

\* os.path.splitext of a file name: the extension starts at the last dot that
\* follows a character other than a dot
SplitExtAt(name) ==
    LET dots == { i \in 2..Len(name) :
                    name[i] = 46 /\ \E j \in 1..(i - 1) : name[j] # 46 }
    IN  IF dots = {} THEN Len(name) + 1
        ELSE CHOOSE i \in dots : \A j \in dots : j <= i

\* f"{counter:02d}"
Format02d(n) == IF n < 10 THEN <<48>> \o DecDigits(n) ELSE DecDigits(n)

\* f"{base_name}-{counter:02d}{ext}" with base_name, ext = os.path.splitext(path)
WithCounter(path, counter) ==
    LET name == BaseName(path)
        k == SplitExtAt(name)
    IN  PathJoin(DirName(path),
                 SubSeq(name, 1, k - 1) \o <<45>> \o Format02d(counter)
                 \o SubSeq(name, k, Len(name)))

\* mutant of FinalDestination: the existence check forgotten
FinalDestination_NoCheck(f, destination) == destination

\* the destination _execute_move settles on (organizer.py 1004-1011)
FinalDestination(f, destination) ==
    IF ~FsExists(f, destination) THEN destination
    ELSE LET n == Cardinality(DOMAIN f.files) + Cardinality(f.dirs) + 1
             free == { c \in 1..n : ~FsExists(f, WithCounter(destination, c)) }
         IN  WithCounter(destination, CHOOSE c \in free : \A d \in free : c <= d)

\* _execute_move(operation): [ret, fs, moved: the moves performed]
_execute_move(f, operation, io_error) ==
    LET moved_to(md, mv) ==
            IF mv.ok
            THEN [ret |-> TRUE, fs |-> mv.fs,
                  moved |-> << [source |-> operation.source,
                                destination |-> operation.destination,
                                final |-> mv.to] >>]
            ELSE [ret |-> FALSE, fs |-> md.fs, moved |-> <<>>]
        in_dir(md) ==
            IF ~md.ok THEN [ret |-> FALSE, fs |-> f, moved |-> <<>>]
            ELSE moved_to(md, ShutilMove(md.fs, operation.source,
                                         FinalDestination(md.fs, operation.destination),
                                         io_error))
    IN  in_dir(FsMakeDirs(f, DirName(operation.destination)))

FileOperation(src, dst, descr) ==
    [operation_type |-> "move", source |-> src, destination |-> dst, description |-> descr]

-----------------------------------------------------------------------------
(* Configuration (config/settings.yaml is no part of the sources: the values    *)
(* are those of a usual installation)                                           *)

video_extensions == { <<46, 109, 107, 118>>, <<46, 109, 112, 52>> }       \* config['video']['extensions']
sample_patterns == { <<115, 97, 109, 112, 108, 101>> }                \* config['video']['sample_patterns']
subtitle_exts == << <<46, 115, 114, 116>> >>                  \* config['subtitle']['extensions']
subtitle_folders == << <<83, 117, 98, 115>> >>               \* config['subtitle']['folder_names']

\* every order in which the elements of a finite set can be listed (os.listdir
\* promises no order)
RECURSIVE Orderings(_)
Orderings(S) ==
    IF S = {} THEN { <<>> }
    ELSE UNION { { <<x>> \o t : t \in Orderings(S \ {x}) } : x \in S }

SeqToSet(s) == { s[i] : i \in 1..Len(s) }

\* os.path.splitext(name): [stem, ext]
SplitExt(name) ==
    [stem |-> SubSeq(name, 1, SplitExtAt(name) - 1),
     ext |-> SubSeq(name, SplitExtAt(name), Len(name))]

-----------------------------------------------------------------------------
(* Related files: organizer.py _clean_filename, _is_related_subtitle,           *)
(* _find_related_files, _move_related_files                                     *)

\* \w of a str pattern
IsWordChar(c) ==
    \/ (48 <= c /\ c <= 57) \/ (65 <= c /\ c <= 90) \/ (97 <= c /\ c <= 122)
    \/ c = 95 \/ IsChineseChar(c)

RECURSIVE CleanFrom(_, _)
\* re.sub(r'\b(1080p|...|h265)\b', '', s, flags=re.IGNORECASE) from position i on,
\* then the separators [.\-_\[\]()] replaced by a space
CleanFrom(s, i) ==
    IF i > Len(s) THEN <<>>
    ELSE LET boundary(k) ==
                 (k > 1 /\ IsWordChar(s[k - 1])) # (k <= Len(s) /\ IsWordChar(s[k]))
             tokens == << <<49, 48, 56, 48, 112>>, <<55, 50, 48, 112>>, <<52, 56, 48, 112>>, <<52, 107>>, <<50, 49, 54, 48, 112>>, <<98, 108, 117, 114, 97, 121>>,
                          <<119, 101, 98, 114, 105, 112>>, <<104, 100, 116, 118>>, <<120, 50, 54, 52>>, <<120, 50, 54, 53>>, <<104, 50, 54, 52>>, <<104, 50, 54, 53>> >>
             hits == { n \in 1..Len(tokens) :
                         /\ i + Len(tokens[n]) - 1 <= Len(s)
                         /\ Lower(SubSeq(s, i, i + Len(tokens[n]) - 1)) = tokens[n]
                         /\ boundary(i) /\ boundary(i + Len(tokens[n])) }
         IN  IF hits # {}
             THEN CleanFrom(s, i + Len(tokens[CHOOSE n \in hits : \A m \in hits : n <= m]))
             ELSE << IF s[i] \in {46, 45, 95, 91, 93, 40, 41} THEN 32 ELSE s[i] >>
                  \o CleanFrom(s, i + 1)

RECURSIVE SplitOnSpace(_)
SplitOnSpace(s) ==
    IF \E i \in 1..Len(s) : IsSpaceChar(s[i])
    THEN LET i == CHOOSE k \in 1..Len(s) :
                      IsSpaceChar(s[k]) /\ \A j \in 1..(k - 1) : ~IsSpaceChar(s[j])
         IN  <<SubSeq(s, 1, i - 1)>> \o SplitOnSpace(SubSeq(s, i + 1, Len(s)))
    ELSE <<s>>

\* str.split(): the whitespace-separated words
Words(s) == SelectSeq(SplitOnSpace(s), LAMBDA w : w # <<>>)

_clean_filename(filename) == JoinWith(<<32>>, Words(CleanFrom(filename, 1)))

_is_related_subtitle(video_name, subtitle_name) ==
    LET related(video_name_clean, subtitle_name_clean) ==
            \/ Contains(subtitle_name_clean, video_name_clean)
            \/ Contains(video_name_clean, subtitle_name_clean)
            \/ Cardinality(SeqToSet(Words(video_name_clean))
                           \cap SeqToSet(Words(subtitle_name_clean))) >= 2
    IN  related(_clean_filename(Lower(video_name)), _clean_filename(Lower(subtitle_name)))

\* _find_related_files(video_path): the lists it can return, one per listing order
_find_related_files(f, video_path) ==
    LET video_dir == DirName(video_path)
        video_name == SplitExt(BaseName(video_path)).stem
        inFolder(n) == { p \in DOMAIN f.files :
                           DirName(p) = PathJoin(video_dir, subtitle_folders[n]) }
        others(same) ==
            { p \in DOMAIN f.files :
                /\ DirName(p) = video_dir
                /\ Lower(SplitExt(BaseName(p)).ext) \in SeqToSet(subtitle_exts)
                /\ _is_related_subtitle(video_name, SplitExt(BaseName(p)).stem)
                /\ p \notin SeqToSet(same) }
        lists(same) ==
            { same \o a \o b :
                a \in Orderings(UNION { inFolder(n) : n \in 1..Len(subtitle_folders) }),
                b \in Orderings(others(same)) }
    IN  lists(SelectSeq([i \in 1..Len(subtitle_exts) |->
                            PathJoin(video_dir, video_name \o subtitle_exts[i])],
                        LAMBDA p : FsExists(f, p)))

RECURSIVE MoveRelatedFrom(_, _, _, _, _)
\* the loop of _move_related_files over related[i..]: [fs, moved]
MoveRelatedFrom(f, related, i, dest_dir, io_errors) ==
    IF i > Len(related) THEN [fs |-> f, moved |-> <<>>]
    ELSE LET related_file == related[i]
             in_sub == BaseName(DirName(related_file)) \in SeqToSet(subtitle_folders)
             subtitle_dir == PathJoin(dest_dir, BaseName(DirName(related_file)))
             dest_path == IF in_sub THEN PathJoin(subtitle_dir, BaseName(related_file))
                          ELSE PathJoin(dest_dir, BaseName(related_file))
             then(ok, to, rest) ==
                 [rest EXCEPT !.moved =
                     (IF ok THEN << [source |-> related_file, destination |-> dest_path,
                                     final |-> to] >>
                      ELSE <<>>) \o @]
             moved_(md, mv) ==
                 then(md.ok /\ mv.ok, mv.to,
                      MoveRelatedFrom(IF md.ok /\ mv.ok THEN mv.fs ELSE md.fs,
                                      related, i + 1, dest_dir, io_errors))
             in_dir(md) ==
                 moved_(md, ShutilMove(md.fs, related_file, dest_path,
                                       related_file \in io_errors))
         IN  in_dir(IF in_sub THEN FsMakeDirs(f, subtitle_dir) ELSE [ok |-> TRUE, fs |-> f])

-----------------------------------------------------------------------------
(* Organizer operations: organizer.py.  o is the organizer with the disk it     *)
(* works on: [dry_run, country_folder, operations, fs].  env is what the world  *)
(* does during the call: env.io the sources whose move the operating system     *)
(* refuses, env.net whether the image server answers, env.season the answer of  *)
(* the provider's season endpoint.  An operation yields the set of its possible *)
(* outcomes [ret, operations, fs, moved] (one per directory-listing order).     *)

_get_country_folder_name(movie_info_) ==
    IF movie_info_.production_countries \in {None, <<>>} THEN <<85, 110, 107, 110, 111, 119, 110, 95, 85, 110, 107, 110, 111, 119, 110>>
    ELSE LET country == movie_info_.production_countries[1]
             clean_name == [i \in 1..Len(country.name) |->
                              IF country.name[i] = 32 THEN 95 ELSE country.name[i]]
         IN  country.iso_3166_1 \o <<95>> \o clean_name

\* re.match(r'^[A-Z]{2,3}_[A-Za-z_]+$', folder_name)
_is_country_folder(name) ==
    LET s == IF name # <<>> /\ name[Len(name)] = 10
             THEN SubSeq(name, 1, Len(name) - 1) ELSE name
    IN  \E n \in 2..3 :
           /\ Len(s) >= n + 2
           /\ \A i \in 1..n : 65 <= s[i] /\ s[i] <= 90
           /\ s[n + 1] = 95
           /\ \A i \in (n + 2)..Len(s) :
                 (65 <= s[i] /\ s[i] <= 90) \/ (97 <= s[i] /\ s[i] <= 122) \/ s[i] = 95

_generate_movie_file_name(movie_info_, source_path, ai_parsed_info_) ==
    _generate_movie_folder_name(movie_info_, ai_parsed_info_) \o <<45>>
    \o _extract_video_info_from_filename(BaseName(source_path))
    \o SplitExt(BaseName(source_path)).ext

\* generate_nfo(movie_info_, output_path): [ret, fs].  The content comes from
\* _generate_movie_nfo_content, whose provider calls are each guarded.
generate_nfo(dry_run_, f, output_path) ==
    IF dry_run_ THEN [ret |-> TRUE, fs |-> f]
    ELSE LET md == FsMakeDirs(f, DirName(output_path))
             w == FsWrite(md.fs, output_path, <<"nfo">>)
         IN  IF md.ok /\ w.ok THEN [ret |-> TRUE, fs |-> w.fs]
             ELSE [ret |-> FALSE, fs |-> md.fs]

generate_season_nfo(dry_run_, f, output_path) ==
    IF dry_run_ THEN [ret |-> TRUE, fs |-> f]
    ELSE LET md == FsMakeDirs(f, DirName(output_path))
             w == FsWrite(md.fs, output_path, <<"season nfo">>)
         IN  IF md.ok /\ w.ok THEN [ret |-> TRUE, fs |-> w.fs]
             ELSE [ret |-> FALSE, fs |-> md.fs]

\* _download_poster(poster_path, output_path): [ret, fs]
_download_poster(dry_run_, f, output_path, net) ==
    IF dry_run_ THEN [ret |-> TRUE, fs |-> f]
    ELSE IF ~net THEN [ret |-> FALSE, fs |-> f]
    ELSE LET md == FsMakeDirs(f, DirName(output_path))
             w == FsWrite(md.fs, output_path, <<"poster">>)
         IN  IF md.ok /\ w.ok THEN [ret |-> TRUE, fs |-> w.fs]
             ELSE [ret |-> FALSE, fs |-> md.fs]

\* the sidecar is written without looking
SidecarAbsent_Unchecked(g, path) == TRUE

\* not os.path.exists(path), the test in front of every sidecar
\* (organizer.py 76, 84, 139, 146)
SidecarAbsent(g, path) == ~FsExists(g, path)

organize_movie(o, movie_info_, source_path, root_dir, ai_parsed_info_, env) ==
    LET dest_dir_of(name) ==
            IF o.country_folder
            THEN PathJoin(PathJoin(root_dir, _get_country_folder_name(movie_info_)), name)
            ELSE PathJoin(root_dir, name)
        planned(dest_dir, operation, related_files) ==
            [ret |-> TRUE, fs |-> o.fs, moved |-> <<>>,
             operations |->
                 Append(o.operations, operation)
                 \o [i \in 1..Len(related_files) |->
                       FileOperation(related_files[i],
                                     PathJoin(dest_dir, BaseName(related_files[i])),
                                     "Move related file")]]
        \* the sidecars: media_info.nfo and poster.jpg, each only if it is not there
        with_poster(dest_dir, g) ==
            IF Truthy(movie_info_.poster_path) /\ SidecarAbsent(g, PathJoin(dest_dir, <<112, 111, 115, 116, 101, 114, 46, 106, 112, 103>>))
            THEN _download_poster(FALSE, g, PathJoin(dest_dir, <<112, 111, 115, 116, 101, 114, 46, 106, 112, 103>>), env.net).fs
            ELSE g
        with_nfo(dest_dir, g) ==
            IF SidecarAbsent(g, PathJoin(dest_dir, <<109, 101, 100, 105, 97, 95, 105, 110, 102, 111, 46, 110, 102, 111>>))
            THEN generate_nfo(FALSE, g, PathJoin(dest_dir, <<109, 101, 100, 105, 97, 95, 105, 110, 102, 111, 46, 110, 102, 111>>)).fs
            ELSE g
        done(dest_dir, em, mr) ==
            [ret |-> TRUE, fs |-> with_poster(dest_dir, with_nfo(dest_dir, mr.fs)),
             moved |-> em.moved \o mr.moved, operations |-> o.operations]
        executed(dest_dir, em) ==
            { done(dest_dir, em, MoveRelatedFrom(em.fs, related_files, 1, dest_dir, env.io)) :
                related_files \in _find_related_files(em.fs, source_path) }
        organize(dest_dir, operation) ==
            IF o.dry_run
            THEN { planned(dest_dir, operation, related_files) :
                     related_files \in _find_related_files(o.fs, source_path) }
            ELSE executed(dest_dir, _execute_move(o.fs, operation, source_path \in env.io))
        named(dest_dir, file_name) ==
            organize(dest_dir,
                     FileOperation(source_path, PathJoin(dest_dir, file_name), "Organize movie"))
    IN  named(dest_dir_of(_generate_movie_folder_name(movie_info_, ai_parsed_info_)),
              _generate_movie_file_name(movie_info_, source_path, ai_parsed_info_))

\* mutant of move_to_unmatched: the preview test forgotten
move_to_unmatched_NoDryRunCheck(o, file_path, env) ==
    LET unmatched_dir == PathJoin(DirName(file_path), <<85, 110, 109, 97, 116, 99, 104, 101, 100>>)
        moved_(em) == { [ret |-> TRUE, fs |-> em.fs, moved |-> em.moved,
                         operations |-> o.operations] }
    IN  moved_(_execute_move(FsMakeDirs(o.fs, unmatched_dir).fs,
                             FileOperation(file_path,
                                           PathJoin(unmatched_dir, BaseName(file_path)),
                                           "Move to Unmatched folder"),
                             file_path \in env.io))

move_to_unmatched(o, file_path, env) ==
    LET unmatched_dir == PathJoin(DirName(file_path), <<85, 110, 109, 97, 116, 99, 104, 101, 100>>)
        operation == FileOperation(file_path, PathJoin(unmatched_dir, BaseName(file_path)),
                                   "Move to Unmatched folder")
        moved_(em) == { [ret |-> TRUE, fs |-> em.fs, moved |-> em.moved,
                         operations |-> o.operations] }
        in_dir(md) ==
            IF ~md.ok
            THEN { [ret |-> FALSE, fs |-> o.fs, moved |-> <<>>, operations |-> o.operations] }
            ELSE moved_(_execute_move(md.fs, operation, file_path \in env.io))
    IN  IF o.dry_run
        THEN { [ret |-> TRUE, fs |-> o.fs, moved |-> <<>>,
                operations |-> Append(o.operations, operation)] }
        ELSE in_dir(FsMakeDirs(o.fs, unmatched_dir))

RECURSIVE CleanupFrom(_, _, _, _, _)
\* the loop of cleanup_unwanted over items[i..]
CleanupFrom(o, source_dir, items, i, env) ==
    IF i > Len(items)
    THEN [ret |-> TRUE, fs |-> o.fs, moved |-> <<>>, operations |-> o.operations]
    ELSE LET item == items[i]
             item_path == PathJoin(source_dir, item)
             unwanted_dir == PathJoin(source_dir, <<85, 110, 119, 97, 110, 116, 101, 100>>)
             operation == FileOperation(item_path, PathJoin(unwanted_dir, item),
                                        "Move to Unwanted folder")
             then(em, rest) == [rest EXCEPT !.moved = em.moved \o @]
             moved_(em) ==
                 then(em, CleanupFrom([o EXCEPT !.fs = em.fs], source_dir, items, i + 1, env))
             in_dir(md) ==
                 IF ~md.ok
                 THEN [ret |-> FALSE, fs |-> o.fs, moved |-> <<>>,
                       operations |-> o.operations]
                 ELSE moved_(_execute_move(md.fs, operation, item_path \in env.io))
             skip == \/ item \in { <<85, 110, 109, 97, 116, 99, 104, 101, 100>>, <<85, 110, 119, 97, 110, 116, 101, 100>> }
                     \/ Organizer_is_organized_folder(item)
                     \/ (o.country_folder /\ _is_country_folder(item))
         IN  IF skip \/ o.dry_run
             THEN CleanupFrom(IF skip THEN o
                              ELSE [o EXCEPT !.operations = Append(@, operation)],
                              source_dir, items, i + 1, env)
             ELSE in_dir(FsMakeDirs(o.fs, unwanted_dir))

cleanup_unwanted(o, source_dir, env) ==
    IF ~FsIsDir(o.fs, source_dir)
    THEN { [ret |-> FALSE, fs |-> o.fs, moved |-> <<>>, operations |-> o.operations] }
    ELSE { CleanupFrom(o, source_dir, items, 1, env) :
             items \in Orderings(FsListDir(o.fs, source_dir)) }

-----------------------------------------------------------------------------
(* TV shows: matcher.py get_season_info; organizer.py _extract_season_number,   *)
(* _extract_episode_number, _group_files_by_season, _batch_rename_episodes,     *)
(* organize_tv_show                                                             *)

RECURSIVE ParseInt(_)
\* int(ds) for a string of decimal digits
ParseInt(ds) ==
    IF ds = <<>> THEN 0
    ELSE 10 * ParseInt(SubSeq(ds, 1, Len(ds) - 1)) + (ds[Len(ds)] - 48)

\* int(re.search(pre (\d{1,2}) post, s).group(1)) for atom sequences pre and
\* post; -1 when the pattern matches nowhere.  anchored: the pattern starts with ^
ReSearchNumber(pre, post, s, anchored) ==
    LET group(g) ==
            LET ns == IF g = 0 THEN {}
                      ELSE { n \in 1..2 :
                               /\ g + n - 1 <= Len(s)
                               /\ \A j \in 0..(n - 1) : InClass(s[g + j], DigitCls)
                               /\ ReMatchEnd(post, 1, s, g + n) # 0 }
            IN  IF ns = {} THEN <<>>
                ELSE SubSeq(s, g, g + (CHOOSE n \in ns : \A m \in ns : m <= n) - 1)
        leftmost(groups) ==
            LET starts == { i \in DOMAIN groups : groups[i] # <<>> }
            IN  IF starts = {} THEN -1
                ELSE ParseInt(groups[CHOOSE k \in starts : \A k2 \in starts : k <= k2])
    IN  leftmost([i \in (IF anchored THEN 1..1 ELSE 1..(Len(s) + 1)) |->
                     group(ReMatchEnd(pre, 1, s, i))])

\* str(path)
PathStr(p) == <<47>> \o JoinWith(<<47>>, p)

\* the S01E01 token of the file name tried before the folders of the path
_extract_season_number_FilenameFirst(file_path) ==
    LET path_str == Lower(PathStr(file_path))
        filename == Lower(BaseName(file_path))
        pick(m1, m2, m3) ==
            IF m3 # -1 THEN m3 ELSE IF m1 # -1 THEN m1 ELSE IF m2 # -1 THEN m2 ELSE 1
    IN  pick(ReSearchNumber(ReLit(<<47, 115>>), ReLit(<<47>>), path_str, FALSE),
             ReSearchNumber(ReLit(<<47, 115, 101, 97, 115, 111, 110>>) \o ReStar([kind |-> "space", ch |-> 0]),
                            ReLit(<<47>>), path_str, FALSE),
             ReSearchNumber(ReLit(<<115>>), ReLit(<<101>>) \o ReRange(DigitCls, 1, 2),
                            filename, FALSE))

_extract_season_number(file_path) ==
    LET path_str == Lower(PathStr(file_path))
        filename == Lower(BaseName(file_path))
        pick(m1, m2, m3) ==
            IF m1 # -1 THEN m1 ELSE IF m2 # -1 THEN m2 ELSE IF m3 # -1 THEN m3 ELSE 1
    IN  pick(ReSearchNumber(ReLit(<<47, 115>>), ReLit(<<47>>), path_str, FALSE),
             ReSearchNumber(ReLit(<<47, 115, 101, 97, 115, 111, 110>>) \o ReStar([kind |-> "space", ch |-> 0]),
                            ReLit(<<47>>), path_str, FALSE),
             ReSearchNumber(ReLit(<<115>>), ReLit(<<101>>) \o ReRange(DigitCls, 1, 2),
                            filename, FALSE))

_extract_episode_number(file_path) ==
    LET filename == Lower(BaseName(file_path))
        exts == { ReLit(<<46, 109, 112, 52>>), ReLit(<<46, 109, 107, 118>>), ReLit(<<46, 97, 118, 105>>) }
        pick(m1, ms, m3) ==
            IF m1 # -1 THEN m1
            ELSE IF ms # {} THEN CHOOSE m \in ms : TRUE
            ELSE IF m3 # -1 THEN m3 ELSE 1
    IN  pick(ReSearchNumber(ReLit(<<115>>) \o ReRange(DigitCls, 1, 2) \o ReLit(<<101>>),
                            <<>>, filename, FALSE),
             { ReSearchNumber(<<>>, x, filename, TRUE) : x \in exts } \ { -1 },
             ReSearchNumber(ReLit(<<101>>), <<>>, filename, FALSE))

\* the dict of _group_files_by_season in insertion order: <<[season_num, files]>>
_group_files_by_season(file_paths) ==
    LET grouped(num) ==
            LET firsts == { i \in 1..Len(file_paths) : \A j \in 1..(i - 1) : num[j] # num[i] }
                kth(k) == CHOOSE i \in firsts : Cardinality({ j \in firsts : j < i }) = k - 1
                in(season) == { i \in 1..Len(file_paths) : num[i] = season }
                ith(season, n) ==
                    CHOOSE i \in in(season) : Cardinality({ j \in in(season) : j < i }) = n - 1
            IN  [k \in 1..Cardinality(firsts) |->
                    [season_num |-> num[kth(k)],
                     files |-> [n \in 1..Cardinality(in(num[kth(k)])) |->
                                   file_paths[ith(num[kth(k)], n)]]]]
    IN  grouped([i \in 1..Len(file_paths) |-> _extract_season_number(file_paths[i])])

\* the fields of the SeasonInfo dataclass (models.py); none has a default
SeasonInfoFields ==
    { "id", "name", "season_number", "air_date", "overview", "poster_path", "episode_count" }

NoSeasonInfo == [is_none |-> TRUE, air_date |-> None]

\* get_season_info(show_id, season_number) when the provider's answer is answer:
\* a transport failure, or the season's JSON.  Constructing a dataclass without
\* one of its required fields raises TypeError, which the function catches
\* like any other exception.
get_season_info(answer) ==
    LET passed == { "season_number", "air_date", "overview", "poster_path", "episode_count" }
    IN  IF answer.fail THEN NoSeasonInfo
        ELSE IF ~(SeasonInfoFields \subseteq passed) THEN NoSeasonInfo
        ELSE [is_none |-> FALSE, air_date |-> answer.air_date]

\* the methods of TMDBMatcher (matcher.py)
TMDBMatcherMethods ==
    { "search_movie", "search_tv_show", "get_season_info", "download_poster" }

RECURSIVE BatchRenameFrom(_, _, _, _, _, _, _)
\* the loop of _batch_rename_episodes over files[i..]: [fs, moved]
BatchRenameFrom(o, files, i, season_dir, show_info_, season_num, env) ==
    IF i > Len(files) THEN [fs |-> o.fs, moved |-> <<>>]
    ELSE IF o.dry_run
    THEN BatchRenameFrom(o, files, i + 1, season_dir, show_info_, season_num, env)
    ELSE LET file_path == files[i]
             episode_name ==
                 <<91>> \o StrOf(show_info_.original_name) \o <<93, 45, 83>> \o Format02d(season_num)
                 \o <<69>> \o Format02d(_extract_episode_number(file_path)) \o <<45>>
                 \o _extract_video_info_from_filename(BaseName(file_path))
                 \o SplitExt(BaseName(file_path)).ext
             then(em, rest) == [rest EXCEPT !.moved = em.moved \o @]
             next(em) ==
                 then(em, BatchRenameFrom([o EXCEPT !.fs = em.fs], files, i + 1,
                                          season_dir, show_info_, season_num, env))
         IN  next(_execute_move(o.fs,
                                FileOperation(file_path, PathJoin(season_dir, episode_name),
                                              "Organize episode"),
                                file_path \in env.io))

\* _get_tv_country_folder_name(show_info): None stands for the AttributeError of
\* reading a field the TVShowInfo dataclass does not have
_get_tv_country_folder_name(show_info_) ==
    IF "origin_country" \notin DOMAIN show_info_ THEN None
    ELSE IF show_info_.origin_country = <<>> THEN <<85, 110, 107, 110, 111, 119, 110, 95, 85, 110, 107, 110, 111, 119, 110>>
    ELSE LET country_code == show_info_.origin_country[1]
             country_mapping == << <<85, 83, 95, 85, 110, 105, 116, 101, 100, 95, 83, 116, 97, 116, 101, 115>>, <<67, 78, 95, 67, 104, 105, 110, 97>>, <<74, 80, 95, 74, 97, 112, 97, 110>>,
                 <<75, 82, 95, 83, 111, 117, 116, 104, 95, 75, 111, 114, 101, 97>>, <<71, 66, 95, 85, 110, 105, 116, 101, 100, 95, 75, 105, 110, 103, 100, 111, 109>>, <<70, 82, 95, 70, 114, 97, 110, 99, 101>>, <<68, 69, 95, 71, 101, 114, 109, 97, 110, 121>>,
                 <<73, 84, 95, 73, 116, 97, 108, 121>>, <<69, 83, 95, 83, 112, 97, 105, 110>>, <<67, 65, 95, 67, 97, 110, 97, 100, 97>>, <<65, 85, 95, 65, 117, 115, 116, 114, 97, 108, 105, 97>>, <<73, 78, 95, 73, 110, 100, 105, 97>>,
                 <<66, 82, 95, 66, 114, 97, 122, 105, 108>>, <<77, 88, 95, 77, 101, 120, 105, 99, 111>>, <<82, 85, 95, 82, 117, 115, 115, 105, 97>>, <<84, 87, 95, 84, 97, 105, 119, 97, 110>>,
                 <<72, 75, 95, 72, 111, 110, 103, 95, 75, 111, 110, 103>>, <<84, 72, 95, 84, 104, 97, 105, 108, 97, 110, 100>>, <<83, 71, 95, 83, 105, 110, 103, 97, 112, 111, 114, 101>> >>
             hit == { n \in 1..Len(country_mapping) :
                        SubSeq(country_mapping[n], 1, 3) = country_code \o <<95>> }
         IN  IF hit # {} THEN country_mapping[CHOOSE n \in hit : TRUE]
             ELSE country_code \o <<95>> \o country_code

RECURSIVE OrganizeSeasonsFrom(_, _, _, _, _, _, _)
\* the loop of organize_tv_show over the season buckets[k..]; seasons: the
\* season folders it settled on
OrganizeSeasonsFrom(o, buckets, k, show_dir, show_info_, matcher, env) ==
    IF k > Len(buckets)
    THEN [ret |-> TRUE, fs |-> o.fs, moved |-> <<>>, operations |-> o.operations,
          seasons |-> <<>>]
    ELSE LET season_num == buckets[k].season_num
             season_info == IF matcher THEN get_season_info(env.season) ELSE NoSeasonInfo
             season_year ==
                 IF ~season_info.is_none /\ Truthy(season_info.air_date)
                 THEN SubSeq(season_info.air_date, 1, 4)
                 ELSE IF Truthy(show_info_.first_air_date)
                 THEN SubSeq(show_info_.first_air_date, 1, 4)
                 ELSE <<85, 110, 107, 110, 111, 119, 110>>
             season_folder == <<83>> \o Format02d(season_num) \o <<45>> \o season_year
             season_dir == PathJoin(show_dir, season_folder)
             \* season.nfo and poster.jpg: only live, with a matcher and season detail
             sidecars == ~o.dry_run /\ matcher /\ ~get_season_info(env.season).is_none
             then(br, rest) == [rest EXCEPT !.moved = br.moved \o @,
                                            !.seasons = << season_folder >> \o @]
             \* matcher.download_season_poster: AttributeError, there is no such method
             with_poster(br, g) ==
                 IF /\ sidecars /\ SidecarAbsent(g, PathJoin(season_dir, <<112, 111, 115, 116, 101, 114, 46, 106, 112, 103>>))
                    /\ "download_season_poster" \notin TMDBMatcherMethods
                 THEN [ret |-> FALSE, fs |-> g, moved |-> br.moved,
                       operations |-> o.operations, seasons |-> << season_folder >>]
                 ELSE then(br, OrganizeSeasonsFrom([o EXCEPT !.fs = g], buckets, k + 1,
                                                   show_dir, show_info_, matcher, env))
             with_nfo(br) ==
                 with_poster(br,
                     IF sidecars /\ SidecarAbsent(br.fs, PathJoin(season_dir, <<115, 101, 97, 115, 111, 110, 46, 110, 102, 111>>))
                     THEN generate_season_nfo(FALSE, br.fs,
                                              PathJoin(season_dir, <<115, 101, 97, 115, 111, 110, 46, 110, 102, 111>>)).fs
                     ELSE br.fs)
         IN  with_nfo(BatchRenameFrom(o, buckets[k].files, 1, season_dir, show_info_,
                                      season_num, env))

organize_tv_show(o, show_info_, file_paths, root_dir, matcher, ai_parsed_info_, env) ==
    LET organize(country_folder_name, show_folder) ==
            IF o.country_folder /\ country_folder_name = None
            THEN { [ret |-> FALSE, fs |-> o.fs, moved |-> <<>>, operations |-> o.operations,
                    seasons |-> <<>>] }
            ELSE { OrganizeSeasonsFrom(o, _group_files_by_season(file_paths), 1,
                       IF o.country_folder
                       THEN PathJoin(PathJoin(root_dir, country_folder_name), show_folder)
                       ELSE PathJoin(root_dir, show_folder),
                       show_info_, matcher, env) }
    IN  organize(_get_tv_country_folder_name(show_info_),
                 _generate_tv_folder_name(show_info_, ai_parsed_info_))

-----------------------------------------------------------------------------
(* Directory scan: scanner.py scan_directory *)

_is_video_file(filename) ==
    \E ext \in video_extensions :
        /\ Len(filename) >= Len(ext)
        /\ SubSeq(Lower(filename), Len(filename) - Len(ext) + 1, Len(filename)) = ext

\* _is_sample_file and _is_sample_directory
_is_sample_file(filename) == \E pattern \in sample_patterns : Contains(filename, pattern)

_detect_media_type(file_path) ==
    IF ReSearchGroup(<< ReLit(<<115>>) \o ReRange(DigitCls, 1, 2) \o ReLit(<<101>>)
                        \o ReRange(DigitCls, 1, 2),
                        ReLit(<<115, 101, 97, 115, 111, 110>>), ReLit(<<101, 112, 105, 115, 111, 100, 101>>) >>,
                     Lower(PathStr(file_path))) # None
    THEN "tv_show" ELSE "movie"

RECURSIVE ScanFrom(_, _)
\* the part of os.walk's loop that starts at the directory root
ScanFrom(f, root) ==
    IF Scanner_is_organized_folder(BaseName(root)) THEN {}
    ELSE { [path |-> PathJoin(root, file), name |-> file,
            media_type |-> _detect_media_type(PathJoin(root, file))] :
             file \in { n \in FsListDir(f, root) :
                          /\ FsIsFile(f, PathJoin(root, n))
                          /\ _is_video_file(n) /\ ~_is_sample_file(n) } }
         \cup UNION { ScanFrom(f, PathJoin(root, d)) :
                        d \in { n \in FsListDir(f, root) :
                                  FsIsDir(f, PathJoin(root, n)) /\ ~_is_sample_file(n) } }

\* scan_directory(path): the media files it returns (in the order of os.walk)
scan_directory(f, path) == IF FsIsDir(f, path) THEN ScanFrom(f, path) ELSE {}

-----------------------------------------------------------------------------
(* Inputs of the naming engine *)

S_Warfare == <<87, 97, 114, 102, 97, 114, 101>>     \* 'Warfare'
S_ZhanZheng == <<25112, 20105>>                     \* U+6218 U+4E89
S_Zheng == <<20105>>                                \* U+4E89
S_Foo == <<70, 111, 111>>                           \* 'Foo'
S_tt12 == <<116, 116, 49, 50>>                      \* 'tt12'
S_999 == <<57, 57, 57>>                             \* '999'

NoAi == [present |-> FALSE, title |-> None, original_title |-> None]

AiInfos ==
    { NoAi,
      [present |-> TRUE, title |-> S_ZhanZheng, original_title |-> S_Warfare],
      [present |-> TRUE, title |-> S_Zheng, original_title |-> S_Foo],
      [present |-> TRUE, title |-> None, original_title |-> None] }

\* year: 0 is _parse_movie_data's value for a result without release_date
MovieInfos ==
    [ original_title : {S_Warfare, S_ZhanZheng, <<>>},
      title : {S_Warfare, S_ZhanZheng, S_Foo, None},
      year : {0, 2025},
      imdb_id : {None, <<>>, <<32>>, S_unknown, S_tt12},
      tmdb_id : {S_999, <<>>, <<32>>} ]

ShowInfos ==
    [ original_name : {S_Warfare, S_ZhanZheng, <<>>},
      name : {S_Warfare, S_ZhanZheng, S_Foo, None},
      imdb_id : {None, <<>>, <<32>>, S_unknown, S_tt12},
      tmdb_id : {S_999, <<>>, <<32>>} ]

NoMovie == [original_title |-> None, title |-> None, year |-> 0,
            imdb_id |-> None, tmdb_id |-> None]
NoShow == [original_name |-> None, name |-> None, imdb_id |-> None, tmdb_id |-> None]

\* no call is in progress
ProcIdle == pc = "idle" /\ locals = <<>> /\ requests = <<>>

OrgIdle ==
    /\ dry_run = FALSE /\ country_folder = FALSE /\ operations = <<>>
    /\ fs = [files |-> <<>>, dirs |-> {}] /\ fs0 = fs
    /\ moves = <<>> /\ last = [op |-> "none"]

NameInit ==
    /\ OrgIdle /\ ProcIdle
    /\ \/ movie_info \in MovieInfos /\ show_info = NoShow
       \/ show_info \in ShowInfos /\ movie_info = NoMovie
    /\ ai_parsed_info \in AiInfos
    /\ folder_name = None
    /\ name_kind = "none"

GenerateMovieFolderName ==
    /\ name_kind = "none" /\ movie_info # NoMovie
    /\ folder_name' = _generate_movie_folder_name(movie_info, ai_parsed_info)
    /\ name_kind' = "movie"
    /\ UNCHANGED <<movie_info, show_info, ai_parsed_info>>
    /\ UNCHANGED orgVars
    /\ UNCHANGED procVars

GenerateTvFolderName ==
    /\ name_kind = "none" /\ show_info # NoShow
    /\ folder_name' = _generate_tv_folder_name(show_info, ai_parsed_info)
    /\ name_kind' = "tv"
    /\ UNCHANGED <<movie_info, show_info, ai_parsed_info>>
    /\ UNCHANGED orgVars
    /\ UNCHANGED procVars

NameNext == GenerateMovieFolderName \/ GenerateTvFolderName

SpecName == NameInit /\ [][NameNext]_vars

-----------------------------------------------------------------------------
(* Properties of the naming engine, stated on the generated text itself *)

HasPrefix(s, p) == Len(p) <= Len(s) /\ SubSeq(s, 1, Len(p)) = p

RECURSIVE AfterLast(_, _)
\* the text of s after the last occurrence of character c (s itself if none)
AfterLast(s, c) ==
    IF \E i \in 1..Len(s) : s[i] = c
    THEN AfterLast(Tail(s), c)
    ELSE s

RECURSIVE SplitOn(_, _)
\* s.split(c)
SplitOn(s, c) ==
    IF \E i \in 1..Len(s) : s[i] = c
    THEN LET i == CHOOSE k \in 1..Len(s) : s[k] = c /\ \A j \in 1..(k - 1) : s[j] # c
         IN  <<SubSeq(s, 1, i - 1)>> \o SplitOn(SubSeq(s, i + 1, Len(s)), c)
    ELSE <<s>>

\* the segments that follow the title part: the inputs' titles hold no ']'
NameSegments(name) == Tail(SplitOn(AfterLast(name, 93), 45))

ImdbSegmentWanted(imdb_id) ==
    /\ imdb_id # None
    /\ \E i \in 1..Len(imdb_id) : ~IsSpaceChar(imdb_id[i])
    /\ imdb_id # <<117, 110, 107, 110, 111, 119, 110>>

ExternalSegmentWanted(tmdb_id) ==
    tmdb_id # None /\ \E i \in 1..Len(tmdb_id) : ~IsSpaceChar(tmdb_id[i])

WantedIdSegments(imdb_id, tmdb_id) ==
    (IF ImdbSegmentWanted(imdb_id) THEN <<imdb_id>> ELSE <<>>)
    \o (IF ExternalSegmentWanted(tmdb_id) THEN <<tmdb_id>> ELSE <<>>)

\* a MovieInfo / TVShowInfo as search_movie / search_tv_show build it: tmdb_id is
\* str(id), imdb_id is None or the provider's non-blank id
MatcherShapedIds(info) == info.tmdb_id = S_999 /\ info.imdb_id \in {None, S_tt12}

\* a match of a provider record that has an original title
MatcherShapedMovie(mi) == Truthy(mi.original_title) /\ MatcherShapedIds(mi)
MatcherShapedShow(si) == Truthy(si.original_name) /\ MatcherShapedIds(si)

\* C5: every folder name the naming engine produces (movie or TV, with or without
\* an IMDB id, one or two titles, any year) is recognized as already organized by
\* the guard of the directory scan and by the guard of the cleanup pass.  (Stated
\* for the matches the matcher can build, with a four-digit year.)
C5_GeneratedNamesAreRecognized ==
    /\ (name_kind = "movie" /\ MatcherShapedMovie(movie_info) /\ movie_info.year = 2025)
          => /\ Scanner_is_organized_folder(folder_name)
             /\ Organizer_is_organized_folder(folder_name)
    /\ (name_kind = "tv" /\ MatcherShapedShow(show_info))
          => /\ Scanner_is_organized_folder(folder_name)
             /\ Organizer_is_organized_folder(folder_name)

\* C6: the movie folder name is the title part followed by year, imdbId, externalId
\* in that order, hyphen-joined; the imdbId segment is there iff the id is non-null,
\* non-blank and not 'unknown', the externalId segment iff it is non-blank; no empty
\* segment, no trailing hyphen; the Warfare example gives the documented name.
C6_MovieFolderNameSegments ==
    name_kind = "movie" =>
        /\ HasPrefix(folder_name, <<91>> \o OrElse(movie_info.original_title, <<>>) \o <<93>>)
        /\ NameSegments(folder_name) =
              <<StrInt(movie_info.year)>>
              \o WantedIdSegments(movie_info.imdb_id, movie_info.tmdb_id)
        /\ \A i \in 1..Len(NameSegments(folder_name)) : NameSegments(folder_name)[i] # <<>>
        /\ folder_name[Len(folder_name)] # 45
        /\ ( /\ movie_info.original_title = S_Warfare
             /\ ai_parsed_info.present /\ ai_parsed_info.title = S_ZhanZheng
             /\ movie_info.year = 2025
             /\ movie_info.imdb_id = S_tt12 /\ movie_info.tmdb_id = S_999 )
           => folder_name = <<91>> \o S_Warfare \o <<93, 45, 91>> \o S_ZhanZheng
                            \o <<93, 45, 50, 48, 50, 53, 45>> \o S_tt12 \o <<45>> \o S_999

\* C6 witness: a name generated with the IMDB id 'unknown' (segment omitted) and an
\* external id present
C6_Witness ==
    /\ name_kind = "movie"
    /\ movie_info.imdb_id = S_unknown /\ movie_info.tmdb_id = S_999
    /\ movie_info.original_title = S_Warfare /\ movie_info.year = 2025
    /\ ai_parsed_info.present /\ ai_parsed_info.title = S_ZhanZheng
    /\ folder_name = <<91>> \o S_Warfare \o <<93, 45, 91>> \o S_ZhanZheng
                     \o <<93, 45, 50, 48, 50, 53, 45>> \o S_999

\* C7: the movie folder name has a year segment only if the match's year is truthy;
\* for year 0 (no release date) the title part is followed by the id segments alone.
C7_NoYearSegmentForYearZero ==
    (name_kind = "movie" /\ movie_info.year = 0 /\ MatcherShapedMovie(movie_info)) =>
        NameSegments(folder_name)
            = WantedIdSegments(movie_info.imdb_id, movie_info.tmdb_id)

ComplementaryScript(a, b) ==
    Truthy(b) /\ (_is_chinese_text(a) # _is_chinese_text(b))

TwoTitlePrefix(a, b) == <<91>> \o a \o <<93, 45, 91>> \o b \o <<93, 45>>
OneTitlePrefix(a) == <<91>> \o a \o <<93, 45>>

\* C8 as stated: the provider's localized title has priority: whenever it is of the
\* complementary script to the provider's original title it is the second title.
C8_ProviderTitleHasPriority ==
    (name_kind = "movie" /\ MatcherShapedMovie(movie_info) /\ movie_info.year = 2025
        /\ ComplementaryScript(OrElse(movie_info.original_title, <<>>), movie_info.title))
    => HasPrefix(folder_name,
                 TwoTitlePrefix(OrElse(movie_info.original_title, <<>>), movie_info.title))

\* C8 amended: with a CJK original title the provider's non-CJK localized title is
\* the second title and the parser's original title is used only when the provider's
\* localized title is empty or CJK; with a non-CJK original title the parser's CJK
\* title comes first and the provider's CJK localized title is used only when the
\* parser gives no CJK title; otherwise there is no second title.
C8_SecondTitlePriority ==
    name_kind = "movie" =>
        LET o == OrElse(movie_info.original_title, <<>>)
            t == OrElse(movie_info.title, <<>>)
            ai == ai_parsed_info
            aiCjk == ai.present /\ ai.title # None
                       /\ \E i \in 1..Len(ai.title) : IsChineseChar(ai.title[i])
            aiLatin == ai.present /\ ai.original_title # None /\ ai.original_title # <<>>
                       /\ \A i \in 1..Len(ai.original_title) :
                             ~IsChineseChar(ai.original_title[i])
            oCjk == \E i \in 1..Len(o) : IsChineseChar(o[i])
            tCjk == \E i \in 1..Len(t) : IsChineseChar(t[i])
            second ==
                CASE oCjk /\ t # <<>> /\ ~tCjk -> t
                  [] oCjk /\ ~(t # <<>> /\ ~tCjk) /\ aiLatin -> ai.original_title
                  [] ~oCjk /\ aiCjk -> ai.title
                  [] ~oCjk /\ ~aiCjk /\ tCjk -> t
                  [] OTHER -> <<>>
        IN  IF second = <<>>
            THEN HasPrefix(folder_name, OneTitlePrefix(o))
            ELSE HasPrefix(folder_name, TwoTitlePrefix(o, second))

\* C8 witness: provider and parser both offer a CJK title for a non-CJK original,
\* and the parser's one is in the name
C8_Witness ==
    /\ name_kind = "movie"
    /\ movie_info.original_title = S_Warfare /\ movie_info.title = S_ZhanZheng
    /\ ai_parsed_info.present /\ ai_parsed_info.title = S_Zheng
    /\ HasPrefix(folder_name, TwoTitlePrefix(S_Warfare, S_Zheng))

-----------------------------------------------------------------------------
(* _execute_move on its own: MaxSources distinct files moved, in any order, to  *)
(* one of two requested destinations, with or without files already there.      *)

MaxSources == 3

P_root == << <<114>> >>
P_in == << <<114>>, <<105, 110>> >>
P_out == << <<114>>, <<111, 117, 116>> >>

\* the i-th source file: a.mkv, b.mkv, ...
SourcePath(i) == PathJoin(P_in, << 96 + i >> \o <<46, 109, 107, 118>>)
SourcePaths == { SourcePath(i) : i \in 1..MaxSources }

D_m == PathJoin(P_out, <<109, 46, 109, 107, 118>>)
D_n == PathJoin(P_out, <<110>>)
MoveDestinations == { D_m, D_n }

\* what may lie at the destinations before the first move
PreExisting == { PathJoin(P_out, <<109, 46, 109, 107, 118>>), PathJoin(P_out, <<109, 45, 48, 49, 46, 109, 107, 118>>) }

MoveInitFs(pre) ==
    [files |-> [p \in SourcePaths \cup pre |->
                   IF p \in SourcePaths THEN <<"src", BaseName(p)>> ELSE <<"old", BaseName(p)>>],
     dirs |-> {P_root, P_in} \cup (IF pre = {} THEN {} ELSE {P_out})]

NameIdle ==
    /\ movie_info = NoMovie /\ show_info = NoShow /\ ai_parsed_info = NoAi
    /\ folder_name = None /\ name_kind = "none"

MoveInit ==
    /\ NameIdle /\ ProcIdle
    /\ dry_run = FALSE /\ country_folder = FALSE /\ operations = <<>>
    /\ \E pre \in SUBSET PreExisting : fs = MoveInitFs(pre)
    /\ fs0 = fs
    /\ moves = <<>>
    /\ last = [op |-> "none"]

ExecuteMove(src, dst, io_error) ==
    LET r == _execute_move(fs, FileOperation(src, dst, "move"), io_error)
    IN  /\ fs' = r.fs
        /\ moves' = moves \o r.moved
        /\ last' = [op |-> "_execute_move", source |-> src, destination |-> dst,
                    ret |-> r.ret]
        /\ UNCHANGED <<dry_run, country_folder, operations, fs0>>
        /\ UNCHANGED nameVars
        /\ UNCHANGED procVars

MoveNext ==
    \E src \in SourcePaths, dst \in MoveDestinations, io_error \in BOOLEAN :
        ExecuteMove(src, dst, io_error)

SpecMove == MoveInit /\ [][MoveNext]_vars

\* the i-th name tried for a requested destination: the name itself, then the
\* counter -01, -02, ... before the extension
ExpectedCandidate(dst, i) ==
    IF dst = D_m
    THEN PathJoin(P_out, IF i = 0 THEN <<109, 46, 109, 107, 118>> ELSE <<109, 45, 48>> \o <<48 + i>> \o <<46, 109, 107, 118>>)
    ELSE PathJoin(P_out, IF i = 0 THEN <<110>> ELSE <<110, 45, 48>> \o <<48 + i>>)

\* the k-th candidate index (k = 1, 2, ...) that held no file before the first move
KthFreeCandidate(dst, k) ==
    CHOOSE i \in 0..9 :
        /\ ExpectedCandidate(dst, i) \notin DOMAIN fs0.files
        /\ Cardinality({ j \in 0..(i - 1) : ExpectedCandidate(dst, j) \notin DOMAIN fs0.files }) = k - 1

MovesTo(dst) == SelectSeq(moves, LAMBDA m : m.destination = dst)

\* C2: in live mode, k distinct sources moved through _execute_move to the same
\* requested destination end as k distinct files: the first at the requested path,
\* the later ones at the requested name with -01, -02, ... before the extension (the
\* lowest free counter), each holding its source's content; no file that was at a
\* destination before is overwritten or lost.
C2_CollidingMovesKeepEveryFile ==
    /\ \A dst \in MoveDestinations :
          \A k \in 1..Len(MovesTo(dst)) :
              LET m == MovesTo(dst)[k]
                  expected == ExpectedCandidate(dst, KthFreeCandidate(dst, k))
              IN  /\ m.final = expected
                  /\ expected \in DOMAIN fs.files
                  /\ fs.files[expected] = <<"src", BaseName(m.source)>>
    /\ \A p \in DOMAIN fs0.files :
          p \notin SourcePaths => (p \in DOMAIN fs.files /\ fs.files[p] = fs0.files[p])
    /\ Cardinality({ fs.files[p] : p \in DOMAIN fs.files }) = Cardinality(DOMAIN fs0.files)
    /\ Cardinality(DOMAIN fs.files) = Cardinality(DOMAIN fs0.files)

\* C2 witness: three sources moved to the same free destination m.mkv
C2_Witness ==
    /\ Len(MovesTo(D_m)) = 3
    /\ DOMAIN fs0.files = SourcePaths
    /\ MovesTo(D_m)[1].final = PathJoin(P_out, <<109, 46, 109, 107, 118>>)
    /\ MovesTo(D_m)[2].final = PathJoin(P_out, <<109, 45, 48, 49, 46, 109, 107, 118>>)
    /\ MovesTo(D_m)[3].final = PathJoin(P_out, <<109, 45, 48, 50, 46, 109, 107, 118>>)
    /\ Cardinality({ p \in DOMAIN fs.files : IsPathPrefix(P_out, p) }) = 3


-----------------------------------------------------------------------------
(* The organizer at work on a small library: one downloaded movie with its     *)
(* subtitles and one show folder with an episode of each of two seasons.  At   *)
(* most MaxOps operations are called, in any order and with any inputs.        *)

MaxOps == 2

P_lib == << <<108, 105, 98>> >>
P_dl == PathJoin(P_lib, <<100, 108>>)
P_show == PathJoin(P_lib, <<115, 104, 111, 119>>)
F_movie == PathJoin(P_dl, <<87, 46, 49, 48, 56, 48, 112, 46, 109, 107, 118>>)
F_sub == PathJoin(P_dl, <<87, 46, 49, 48, 56, 48, 112, 46, 115, 114, 116>>)
F_subs_en == PathJoin(PathJoin(P_dl, <<83, 117, 98, 115>>), <<101, 110, 46, 115, 114, 116>>)
F_ep1 == PathJoin(P_show, <<115, 48, 49, 101, 48, 49, 46, 109, 107, 118>>)
F_ep2 == PathJoin(P_show, <<115, 48, 50, 101, 48, 49, 46, 109, 107, 118>>)

OrgInitFs ==
    [files |-> [p \in {F_movie, F_sub, F_subs_en, F_ep1, F_ep2} |-> <<"src", p>>],
     dirs |-> {P_lib, P_dl, PathJoin(P_dl, <<83, 117, 98, 115>>), P_show}]

\* what search_movie and search_tv_show hand to the organizer
OrgMovieInfos ==
    { [original_title |-> S_Warfare, title |-> S_ZhanZheng, year |-> 2025,
       imdb_id |-> S_tt12, tmdb_id |-> S_999, poster_path |-> <<47, 112, 46, 106, 112, 103>>,
       production_countries |-> None],
      [original_title |-> S_ZhanZheng, title |-> S_ZhanZheng, year |-> 0,
       imdb_id |-> None, tmdb_id |-> S_999, poster_path |-> None,
       production_countries |-> None] }

OrgShowInfos ==
    { [original_name |-> S_Foo, name |-> S_Zheng, first_air_date |-> d,
       imdb_id |-> None, tmdb_id |-> S_999, poster_path |-> None] :
        d \in { <<50, 48, 49, 57, 45, 48, 53, 45, 48, 49>>, <<>> } }

\* the answers of the provider's season endpoint: no answer, or the season's JSON
SeasonAnswers ==
    { [fail |-> TRUE, air_date |-> None],
      [fail |-> FALSE, air_date |-> <<50, 48, 50, 49, 45, 48, 51, 45, 48, 52>>],
      [fail |-> FALSE, air_date |-> <<>>] }

OrgInit ==
    /\ NameIdle /\ ProcIdle
    /\ dry_run \in BOOLEAN /\ country_folder \in BOOLEAN
    /\ operations = <<>>
    /\ fs = OrgInitFs /\ fs0 = fs
    /\ moves = <<>>
    /\ last = [op |-> "none", ret |-> TRUE, n |-> 0]

Organizer == [dry_run |-> dry_run, country_folder |-> country_folder,
              operations |-> operations, fs |-> fs]

\* the organizer and the disk after an operation with outcome out
Outcome(op, out, extra) ==
    /\ fs' = out.fs
    /\ operations' = out.operations
    /\ moves' = moves \o out.moved
    /\ last' = [op |-> op, ret |-> out.ret, n |-> last.n + 1] @@ extra
    /\ UNCHANGED <<dry_run, country_folder, fs0>>
    /\ UNCHANGED procVars

OrganizeMovie ==
    /\ last.n < MaxOps
    /\ \E mi \in OrgMovieInfos, io \in SUBSET {F_movie}, net \in BOOLEAN, o \in {Organizer} :
         \E out \in organize_movie(o, mi, F_movie, P_lib, NoAi, [io |-> io, net |-> net]) :
           /\ Outcome("organize_movie", out, <<>>)
           /\ movie_info' = mi
           /\ folder_name' = _generate_movie_folder_name(mi, NoAi)
           /\ name_kind' = "movie"
           /\ UNCHANGED <<show_info, ai_parsed_info>>

OrganizeTvShow ==
    /\ last.n < MaxOps
    /\ \E si \in OrgShowInfos, io \in SUBSET {F_ep1}, matcher \in BOOLEAN,
          season \in SeasonAnswers, o \in {Organizer} :
         /\ matcher \/ season.fail
         /\ \E out \in organize_tv_show(o, si, <<F_ep1, F_ep2>>, P_lib, matcher, NoAi,
                                       [io |-> io, season |-> season]) :
              /\ Outcome("organize_tv_show", out,
                         [seasons |-> out.seasons, matcher |-> matcher, season |-> season])
              /\ show_info' = si
              /\ folder_name' = _generate_tv_folder_name(si, NoAi)
              /\ name_kind' = "tv"
              /\ UNCHANGED <<movie_info, ai_parsed_info>>

MoveToUnmatched ==
    /\ last.n < MaxOps
    /\ \E file_path \in {F_movie, F_ep1}, io \in BOOLEAN, o \in {Organizer} :
         \E out \in move_to_unmatched(o, file_path, [io |-> IF io THEN {file_path} ELSE {}]) :
           /\ Outcome("move_to_unmatched", out, <<>>)
           /\ UNCHANGED nameVars

CleanupUnwanted ==
    /\ last.n < MaxOps
    /\ \E io \in SUBSET {P_dl}, o \in {Organizer} :
         \E out \in cleanup_unwanted(o, P_lib, [io |-> io]) :
           /\ Outcome("cleanup_unwanted", out, <<>>)
           /\ UNCHANGED nameVars

GenerateNfo ==
    /\ last.n < MaxOps
    /\ LET out == generate_nfo(dry_run, fs, PathJoin(P_dl, <<109, 101, 100, 105, 97, 95, 105, 110, 102, 111, 46, 110, 102, 111>>))
       IN  Outcome("generate_nfo", out @@ [moved |-> <<>>, operations |-> operations], <<>>)
    /\ UNCHANGED nameVars

GenerateSeasonNfo ==
    /\ last.n < MaxOps
    /\ LET out == generate_season_nfo(dry_run, fs, PathJoin(P_show, <<115, 101, 97, 115, 111, 110, 46, 110, 102, 111>>))
       IN  Outcome("generate_season_nfo",
                   out @@ [moved |-> <<>>, operations |-> operations], <<>>)
    /\ UNCHANGED nameVars

DownloadPoster ==
    /\ last.n < MaxOps
    /\ \E net \in BOOLEAN :
         LET out == _download_poster(dry_run, fs, PathJoin(P_dl, <<112, 111, 115, 116, 101, 114, 46, 106, 112, 103>>), net)
         IN  Outcome("_download_poster",
                     out @@ [moved |-> <<>>, operations |-> operations], <<>>)
    /\ UNCHANGED nameVars

OrgNext ==
    \/ OrganizeMovie
    \/ OrganizeTvShow
    \/ MoveToUnmatched
    \/ CleanupUnwanted
    \/ GenerateNfo
    \/ GenerateSeasonNfo
    \/ DownloadPoster

SpecOrg == OrgInit /\ [][OrgNext]_vars

\* C3: in preview mode no sequence of organizer operations touches the disk: the
\* files, their contents and the directories stay as they were before the first
\* operation, and nothing is recorded as moved; only the operation log grows.
C3_DryRunLeavesDiskUntouched ==
    dry_run => (fs = fs0 /\ moves = <<>>)

\* C3 witness: two operations were called in preview mode and the log holds the
\* planned moves of the movie and of its subtitles
C3_Witness ==
    /\ dry_run /\ last.n >= 2
    /\ \E i \in 1..Len(operations) : operations[i].source = F_movie
    /\ \E i \in 1..Len(operations) : operations[i].source = F_subs_en
    /\ fs = fs0

\* the year a season folder is to carry: the season's own air-date year when the
\* provider returned season detail with an air date, else the show's first-air
\* year, else Unknown
ExpectedSeasonYear(si, season) ==
    IF ~season.fail /\ Truthy(season.air_date) THEN SubSeq(season.air_date, 1, 4)
    ELSE IF Truthy(si.first_air_date) THEN SubSeq(si.first_air_date, 1, 4)
    ELSE <<85, 110, 107, 110, 111, 119, 110>>

\* C9: organize_tv_show with a matcher names every season folder S<season:02d>-<year>
\* with the season's own air-date year when the provider returns season detail with
\* an air date, else the show's first-air year, else Unknown; and it does not fail.
C9_SeasonFolderCarriesSeasonYear ==
    (last.op = "organize_tv_show" /\ last.matcher /\ ~country_folder) =>
        /\ last.ret
        /\ Len(last.seasons) = 2
        /\ \A k \in 1..Len(last.seasons) :
              last.seasons[k] = <<83>> \o Format02d(k) \o <<45>>
                                \o ExpectedSeasonYear(show_info, last.season)

-----------------------------------------------------------------------------
(* The two passes over a library that holds one folder left by an earlier run, *)
(* named in one of the shapes of an organized folder, next to a new download.  *)

OrganizedNames ==
    { t \o y \o i \o <<45, 57, 57, 57>> :
        t \in { <<91, 70, 111, 111, 93>>, <<91, 70, 111, 111, 93, 45, 91, 66, 97, 114, 93>> },
        y \in { <<>>, <<45, 50, 48, 50, 48>> },
        i \in { <<>>, <<45, 116, 116, 49, 50, 51, 52, 53, 54, 55>> } }

GuardInitFs(name) ==
    [files |-> [p \in { PathJoin(PathJoin(P_lib, name), <<102, 46, 109, 107, 118>>),
                        PathJoin(P_lib, <<110, 101, 119, 46, 109, 107, 118>>) } |-> <<"src", p>>],
     dirs |-> { P_lib, PathJoin(P_lib, name) }]

GuardInit ==
    /\ ProcIdle
    /\ movie_info = NoMovie /\ show_info = NoShow /\ ai_parsed_info = NoAi
    /\ folder_name \in OrganizedNames
    /\ name_kind = "organized"
    /\ dry_run \in BOOLEAN /\ country_folder \in BOOLEAN
    /\ operations = <<>>
    /\ fs = GuardInitFs(folder_name) /\ fs0 = fs
    /\ moves = <<>>
    /\ last = [op |-> "none", ret |-> TRUE, n |-> 0]

ScanDirectory ==
    /\ last.n < MaxOps
    /\ last' = [op |-> "scan_directory", ret |-> TRUE, n |-> last.n + 1,
                media_files |-> scan_directory(fs, P_lib)]
    /\ UNCHANGED <<dry_run, country_folder, operations, fs, fs0, moves>>
    /\ UNCHANGED nameVars
    /\ UNCHANGED procVars

GuardNext == ScanDirectory \/ CleanupUnwanted

SpecGuard == GuardInit /\ [][GuardNext]_vars

\* C4: a folder named in one of the shapes of an organized folder is not entered by
\* the scan (no media file from inside it is returned) and is not moved by the
\* cleanup pass.
C4_OrganizedFolderIsLeftAlone ==
    /\ last.op = "scan_directory" =>
          \A m \in last.media_files : ~IsPathPrefix(PathJoin(P_lib, folder_name), m.path)
    /\ PathJoin(P_lib, folder_name) \in fs.dirs
    /\ PathJoin(PathJoin(P_lib, folder_name), <<102, 46, 109, 107, 118>>) \in DOMAIN fs.files


-----------------------------------------------------------------------------
(* The metadata search (matcher.py): search_movie, one provider request at a *)
(* time.  An Optional value is Nothing or Some(v).                           *)

Nothing == [present |-> FALSE]
Some(v) == [present |-> TRUE, value |-> v]

\* year=None in a request
NoYear == -1

\* bool(year) for an int-or-None year
YearTruthy(year) == year # NoYear /\ year # 0

\* the list search_movie builds before its loop
search_attempts_TitleFirst(title, year, original_title) ==
    (IF Truthy(original_title) /\ title # original_title /\ YearTruthy(year)
     THEN << [search_term |-> original_title \o <<32>> \o StrOf(title), search_year |-> year,
              strategy |-> "combined titles + year"] >>
     ELSE <<>>)
    \o (IF Truthy(title) /\ YearTruthy(year)
        THEN << [search_term |-> title, search_year |-> year,
                 strategy |-> "title + year"] >>
        ELSE <<>>)
    \o (IF Truthy(original_title) /\ YearTruthy(year)
        THEN << [search_term |-> original_title, search_year |-> year,
                 strategy |-> "original title + year"] >>
        ELSE <<>>)
    \o (IF Truthy(original_title)
        THEN << [search_term |-> original_title, search_year |-> NoYear,
                 strategy |-> "original title only"] >>
        ELSE <<>>)
    \o (IF Truthy(title) /\ title # original_title
        THEN << [search_term |-> title, search_year |-> NoYear,
                 strategy |-> "title only"] >>
        ELSE <<>>)

search_attempts(title, year, original_title) ==
    (IF Truthy(original_title) /\ title # original_title /\ YearTruthy(year)
     THEN << [search_term |-> original_title \o <<32>> \o StrOf(title), search_year |-> year,
              strategy |-> "combined titles + year"] >>
     ELSE <<>>)
    \o (IF Truthy(original_title) /\ YearTruthy(year)
        THEN << [search_term |-> original_title, search_year |-> year,
                 strategy |-> "original title + year"] >>
        ELSE <<>>)
    \o (IF Truthy(title) /\ YearTruthy(year)
        THEN << [search_term |-> title, search_year |-> year,
                 strategy |-> "title + year"] >>
        ELSE <<>>)
    \o (IF Truthy(original_title)
        THEN << [search_term |-> original_title, search_year |-> NoYear,
                 strategy |-> "original title only"] >>
        ELSE <<>>)
    \o (IF Truthy(title) /\ title # original_title
        THEN << [search_term |-> title, search_year |-> NoYear,
                 strategy |-> "title only"] >>
        ELSE <<>>)

\* an empty result list is not skipped
_search_movie_api_EmptyIsHit(resp) ==
    IF resp.fail THEN Nothing
    ELSE Some(IF resp.results # <<>> THEN resp.results[1]
              ELSE [id |-> 0, title |-> None, original_title |-> None,
                    release_date |-> <<>>, poster_path |-> None])

\* _search_movie_api when the provider's answer is resp: a failed call
\* (transport error, HTTP error status, undecodable body) or the results list
_search_movie_api(resp) ==
    IF resp.fail THEN Nothing
    ELSE IF resp.results # <<>> THEN Some(resp.results[1])
    ELSE Nothing

\* _get_movie_details when the provider's answer is resp
_get_movie_details(resp) ==
    IF resp.fail THEN Nothing ELSE Some(resp)

\* datetime.strptime(s, '%Y-%m-%d'): [ok, year]; ~ok stands for ValueError.
\* The fields are %Y \d\d\d\d, %m 1[0-2]|0[1-9]|[1-9] and
\* %d 3[01]|[12]\d|0[1-9]|[1-9]| [1-9]; the date must exist.
strptime(s) ==
    LET IsDigits(t) == \A i \in 1..Len(t) : InClass(t[i], DigitCls)
        Month(t) ==
            \/ Len(t) = 2 /\ t[1] = 49 /\ t[2] \in 48..50
            \/ Len(t) = 2 /\ t[1] = 48 /\ t[2] \in 49..57
            \/ Len(t) = 1 /\ t[1] \in 49..57
        Day(t) ==
            \/ Len(t) = 2 /\ t[1] = 51 /\ t[2] \in 48..49
            \/ Len(t) = 2 /\ t[1] \in 49..50 /\ t[2] \in 48..57
            \/ Len(t) = 2 /\ t[1] \in {48, 32} /\ t[2] \in 49..57
            \/ Len(t) = 1 /\ t[1] \in 49..57
        DaysInMonth(y, m) ==
            IF m = 2 THEN (IF (y % 4 = 0 /\ y % 100 # 0) \/ y % 400 = 0 THEN 29 ELSE 28)
            ELSE IF m \in {4, 6, 9, 11} THEN 30
            ELSE 31
        parsed(parts) ==
            IF /\ Len(parts) = 3
               /\ Len(parts[1]) = 4 /\ IsDigits(parts[1])
               /\ Month(parts[2])
               /\ Day(parts[3])
            THEN LET y == ParseInt(parts[1])
                     m == ParseInt(parts[2])
                     d == ParseInt(LStrip(parts[3]))
                 IN  [ok |-> y >= 1 /\ d <= DaysInMonth(y, m), year |-> y]
            ELSE [ok |-> FALSE, year |-> 0]
    IN  parsed(SplitOn(s, 45))

\* _parse_movie_data(data): [raised, value]
_parse_movie_data(data) ==
    LET build(t) ==
            IF Truthy(data.release_date) /\ ~t.ok
            THEN [raised |-> TRUE, value |-> NoMovie]
            ELSE [raised |-> FALSE,
                  value |-> [id |-> data.id, title |-> data.title,
                             original_title |-> data.original_title,
                             year |-> IF Truthy(data.release_date) THEN t.year ELSE 0,
                             poster_path |-> data.poster_path,
                             imdb_id |-> None, tmdb_id |-> StrInt(data.id),
                             production_countries |-> None]]
    IN  build(strptime(StrOf(data.release_date)))

_enhance_movie_with_alternative_titles(movie_info_, detailed_info) ==
    LET FirstOf(seq, idx) == seq[CHOOSE i \in idx : \A j \in idx : i <= j]
        alt_titles == detailed_info.alternative_titles
        translations == detailed_info.translations
        en == { i \in 1..Len(alt_titles) :
                  /\ alt_titles[i].iso_3166_1 \in {"US", "GB"}
                  /\ ~_is_chinese_text(alt_titles[i].title) }
        zh == { i \in 1..Len(alt_titles) :
                  /\ alt_titles[i].iso_3166_1 \in {"CN", "TW", "HK"}
                  /\ _is_chinese_text(alt_titles[i].title) }
        tr == { i \in 1..Len(translations) :
                  /\ translations[i].iso_3166_1 \in {"CN", "TW", "HK"}
                  /\ _is_chinese_text(translations[i].title) }
        with_translation(mi) ==
            IF tr # {} THEN [mi EXCEPT !.title = FirstOf(translations, tr).title] ELSE mi
    IN  IF _is_chinese_text(movie_info_.original_title)
        THEN IF en # {} THEN [movie_info_ EXCEPT !.title = FirstOf(alt_titles, en).title]
             ELSE movie_info_
        ELSE with_translation(IF zh # {}
                              THEN [movie_info_ EXCEPT !.title = FirstOf(alt_titles, zh).title]
                              ELSE movie_info_)

\* search_movie after _parse_movie_data: the detail call and what it adds
WithMovieDetails(movie_info_, detailed_info) ==
    IF ~detailed_info.present THEN movie_info_
    ELSE LET imdb_id == detailed_info.value.imdb_id
         IN  _enhance_movie_with_alternative_titles(
                 IF Truthy(imdb_id) /\ Truthy(Strip(imdb_id))
                 THEN [movie_info_ EXCEPT !.imdb_id = imdb_id]
                 ELSE movie_info_,
                 detailed_info.value)

\* ---- the inputs and the provider's answers ----
\* the arguments of search_movie: ParsedInfo's title, original_title and year
SearchInputs ==
    [ title : { None, <<>>, S_ZhanZheng, S_Warfare },
      original_title : { None, S_Warfare },
      year : { NoYear, 0, 2025 } ]

R_hit == [id |-> 999, title |-> S_ZhanZheng, original_title |-> S_Warfare,
          release_date |-> <<50, 48, 50, 53, 45, 48, 52, 45, 49, 48>>, poster_path |-> <<47, 112, 46, 106, 112, 103>>]
R_undated == [id |-> 12, title |-> S_Foo, original_title |-> S_Foo,
              release_date |-> <<>>, poster_path |-> None]
R_baddate == [id |-> 7, title |-> S_Foo, original_title |-> S_Foo,
              release_date |-> <<50, 48, 50, 53>>, poster_path |-> None]

SearchResponses ==
    { [fail |-> TRUE, results |-> <<>>],
      [fail |-> FALSE, results |-> <<>>],
      [fail |-> FALSE, results |-> <<R_hit>>],
      [fail |-> FALSE, results |-> <<R_undated, R_hit>>],
      [fail |-> FALSE, results |-> <<R_baddate>>] }

DetailResponses ==
    { [fail |-> TRUE, imdb_id |-> None, alternative_titles |-> <<>>, translations |-> <<>>],
      [fail |-> FALSE, imdb_id |-> S_tt12, alternative_titles |-> <<>>, translations |-> <<>>],
      [fail |-> FALSE, imdb_id |-> <<32>>,
       alternative_titles |-> << [iso_3166_1 |-> "US", title |-> S_Foo],
                                 [iso_3166_1 |-> "CN", title |-> S_ZhanZheng] >>,
       translations |-> << [iso_3166_1 |-> "TW", title |-> S_Zheng] >>],
      [fail |-> FALSE, imdb_id |-> None,
       alternative_titles |-> << [iso_3166_1 |-> "HK", title |-> S_Zheng] >>,
       translations |-> <<>>] }

SearchInit ==
    /\ NameIdle /\ OrgIdle /\ ProcIdle

\* search_movie is called: lines 27-52
CallSearchMovie ==
    /\ pc = "idle"
    /\ \E args \in SearchInputs :
         locals' = [title |-> args.title, original_title |-> args.original_title, year |-> args.year,
                    search_attempts |-> search_attempts(args.title, args.year, args.original_title),
                    k |-> 1, movie_data |-> Nothing, ret |-> Nothing]
    /\ pc' = "attempts"
    /\ UNCHANGED <<requests>>
    /\ UNCHANGED nameVars
    /\ UNCHANGED orgVars

\* one turn of the loop over search_attempts: lines 55-60
TrySearchStrategy ==
    /\ pc = "attempts"
    /\ ~locals.movie_data.present
    /\ locals.k <= Len(locals.search_attempts)
    /\ \E resp \in SearchResponses :
         /\ requests' = Append(requests,
                               [endpoint |-> "/search/movie",
                                query |-> locals.search_attempts[locals.k].search_term,
                                year |-> locals.search_attempts[locals.k].search_year,
                                response |-> resp])
         /\ locals' = [locals EXCEPT !.movie_data = _search_movie_api(resp), !.k = @ + 1]
    /\ UNCHANGED <<pc>>
    /\ UNCHANGED nameVars
    /\ UNCHANGED orgVars

\* after the loop: lines 62-79
ReturnFromSearchMovie ==
    /\ pc = "attempts"
    /\ locals.movie_data.present \/ locals.k > Len(locals.search_attempts)
    /\ IF locals.movie_data.present
       THEN LET parsed == _parse_movie_data(locals.movie_data.value)
            IN  IF parsed.raised
                THEN pc' = "raised" /\ UNCHANGED <<locals, requests>>
                ELSE \E resp \in DetailResponses :
                       /\ requests' = Append(requests,
                                             [endpoint |-> "/movie/{id}", query |-> StrInt(parsed.value.id),
                                              year |-> NoYear, response |-> resp])
                       /\ locals' = [locals EXCEPT
                                       !.ret = Some(WithMovieDetails(parsed.value,
                                                                     _get_movie_details(resp)))]
                       /\ pc' = "returned"
       ELSE pc' = "returned" /\ UNCHANGED <<locals, requests>>
    /\ UNCHANGED nameVars
    /\ UNCHANGED orgVars

SearchNext ==
    \/ CallSearchMovie
    \/ TrySearchStrategy
    \/ ReturnFromSearchMovie

SpecSearch == SearchInit /\ [][SearchNext]_vars

\* the search requests sent so far, in order
SearchRequests == SelectSeq(requests, LAMBDA r : r.endpoint = "/search/movie")

NoResults(resp) == resp.fail \/ resp.results = <<>>

\* the documented order of attempts for two distinct titles and a year
DocumentedAttempts(original, localized, year) ==
    << [query |-> original \o <<32>> \o localized, year |-> year],
       [query |-> original, year |-> year],
       [query |-> localized, year |-> year],
       [query |-> original, year |-> NoYear],
       [query |-> localized, year |-> NoYear] >>

AllThreePresent ==
    /\ pc # "idle"
    /\ Truthy(locals.title) /\ Truthy(locals.original_title)
    /\ locals.title # locals.original_title
    /\ YearTruthy(locals.year)

\* the match's fields that come from the search result it was parsed from
BuiltFrom(mi, result) ==
    /\ mi.id = result.id
    /\ mi.tmdb_id = StrInt(result.id)
    /\ mi.original_title = result.original_title
    /\ mi.poster_path = result.poster_path
    /\ mi.year = (IF result.release_date = <<>> THEN 0
                  ELSE ParseInt(SubSeq(result.release_date, 1, 4)))

\* C1: with both titles present and distinct and a year, the search requests
\* sent so far are a prefix of the documented list of five; every request
\* before the last one returned nothing (so attempt k+1 is sent only after
\* attempts 1..k came back empty and none is sent after a hit); and a returned
\* match is built from the first result of the last request.
C1_SearchAttemptsInOrder ==
    AllThreePresent =>
        LET sr == SearchRequests
            doc == DocumentedAttempts(locals.original_title, locals.title, locals.year)
        IN  /\ Len(sr) <= Len(doc)
            /\ \A i \in 1..Len(sr) : sr[i].query = doc[i].query /\ sr[i].year = doc[i].year
            /\ \A i \in 1..(Len(sr) - 1) : NoResults(sr[i].response)
            /\ (pc = "returned" /\ locals.ret.present) =>
                  /\ Len(sr) >= 1
                  /\ ~NoResults(sr[Len(sr)].response)
                  /\ BuiltFrom(locals.ret.value, sr[Len(sr)].response.results[1])

\* C1 witness: the first attempt failed, the second came back empty, the third
\* returned two results and the match was built from the first of them
C1_Witness ==
    /\ AllThreePresent
    /\ pc = "returned" /\ locals.ret.present
    /\ Len(SearchRequests) = 3
    /\ SearchRequests[1].response.fail
    /\ SearchRequests[3].response.results = <<R_undated, R_hit>>
    /\ locals.ret.value.id = 12

\* C11: search_movie does not raise because of its attempts: a request that failed
\* or came back empty leaves movie_data empty and an exception only ever follows
\* a request that returned a result; when every request sent failed or came back
\* empty (also when no attempt could be built) every attempt of the list was
\* sent and search_movie returned None.
C11_EmptyAttemptsEndInNoMatch ==
    pc # "idle" =>
        LET sr == SearchRequests
        IN  /\ (sr # <<>> /\ NoResults(sr[Len(sr)].response)) => ~locals.movie_data.present
            /\ pc = "raised" => (sr # <<>> /\ ~NoResults(sr[Len(sr)].response))
            /\ (pc \in {"returned", "raised"} /\ \A i \in 1..Len(sr) : NoResults(sr[i].response)) =>
                  /\ pc = "returned" /\ ~locals.ret.present
                  /\ Len(sr) = Len(locals.search_attempts)

\* C11 witness: five attempts were sent, some failed and some came back empty, and
\* search_movie returned None
C11_Witness ==
    /\ pc = "returned" /\ ~locals.ret.present
    /\ Len(SearchRequests) = 5
    /\ \E i \in 1..5 : SearchRequests[i].response.fail
    /\ \E i \in 1..5 : ~SearchRequests[i].response.fail

-----------------------------------------------------------------------------
(* A run of the program (main.py), over a library with a movie download and *)
(* a show folder.  The parser and the provider answer each item as they     *)
(* please; the organizer acts on the disk as modelled above.                *)

MainInitFs ==
    [files |-> [p \in {F_movie, F_sub, F_ep1} |-> <<"src", p>>],
     dirs |-> {P_lib, P_dl, P_show}]

\* the orders in which os.walk can return the media files: the files of one
\* directory come together, directories and files in the order of the listing
WalkOrders(media_files) ==
    { order \in Orderings(media_files) :
        \A a, b, c \in 1..Len(order) :
            (a < b /\ b < c /\ DirName(order[a].path) = DirName(order[c].path))
                => DirName(order[b].path) = DirName(order[a].path) }

\* the dictionary built at lines 100-108, as the list of its items in insertion order
tv_folders(media_files, path) ==
    LET root_folder(i) == media_files[i].path[Len(path) + 1]
        firsts == { i \in 1..Len(media_files) :
                      \A j \in 1..(i - 1) : root_folder(j) # root_folder(i) }
        nth(S, n) == CHOOSE j \in S : Cardinality({ x \in S : x < j }) = n - 1
        members(i) == { j \in 1..Len(media_files) : root_folder(j) = root_folder(i) }
        item(i) == [folder_name |-> root_folder(i),
                    file_paths |-> [n \in 1..Cardinality(members(i)) |->
                                       media_files[nth(members(i), n)].path]]
    IN  [k \in 1..Cardinality(firsts) |-> item(nth(firsts, k))]

\* what parse_with_ai returns: None (NoAi) or the parsed names
ParseAnswers ==
    { NoAi, [present |-> TRUE, title |-> S_ZhanZheng, original_title |-> S_Warfare] }

\* how search_movie ends: it raises (strptime on a malformed release_date),
\* returns None, or returns a match
MovieSearchAnswers ==
    { [kind |-> "raise", value |-> NoMovie], [kind |-> "none", value |-> NoMovie] }
    \cup { [kind |-> "match", value |-> mi] : mi \in OrgMovieInfos }

\* how search_tv_show ends: it raises (a search result that is no JSON object),
\* returns None, or returns a match
TvSearchAnswers ==
    { [kind |-> "raise", value |-> NoShow], [kind |-> "none", value |-> NoShow] }
    \cup { [kind |-> "match", value |-> si] : si \in OrgShowInfos }

\* the disk and the log as the organizer o has them, with how the item ended
ItemEnd(o, outcome) ==
    [fs |-> o.fs, operations |-> o.operations, moved |-> <<>>, outcome |-> outcome]

\* the try block of the movie loop, lines 65-92
movie_item(o, media_file, path, parsed_info, tmdb_info, env) ==
    IF ~parsed_info.present THEN { ItemEnd(o, "no_parse") }
    ELSE IF tmdb_info.kind = "raise" THEN { ItemEnd(o, "raised") }
    ELSE IF tmdb_info.kind = "none" THEN { ItemEnd(o, "no_match") }
    ELSE { [fs |-> out.fs, operations |-> out.operations, moved |-> out.moved,
            outcome |-> IF out.ret THEN "processed" ELSE "failed"] :
             out \in organize_movie(o, tmdb_info.value, media_file.path, path,
                                    parsed_info, env) }

\* the try block of the TV loop, lines 112-129
tv_item(o, file_paths, path, parsed_info, tmdb_info, env) ==
    IF ~parsed_info.present THEN { ItemEnd(o, "no_parse") }
    ELSE IF tmdb_info.kind = "raise" THEN { ItemEnd(o, "raised") }
    ELSE IF tmdb_info.kind = "none" THEN { ItemEnd(o, "no_match") }
    ELSE { [fs |-> out.fs, operations |-> out.operations, moved |-> out.moved,
            outcome |-> IF out.ret THEN "processed" ELSE "failed"] :
             out \in organize_tv_show(o, tmdb_info.value, file_paths, path, TRUE,
                                      parsed_info, env) }

\* the exception leaves the loop and reaches the handler at line 161
item_except_Propagate(l, file_paths) ==
    [l EXCEPT !.exception = TRUE]

\* the except clause of an item's try block, lines 94-96 and 131-133
item_except(l, file_paths) ==
    [l EXCEPT !.unmatched_files = @ \o file_paths]

\* an item loop whose except clause only logs the error
AfterItem_ExceptOnlyLogs(l, outcome, file_paths) ==
    LET next == [l EXCEPT !.item_log = Append(@, outcome), !.i = @ + 1]
    IN  CASE outcome = "processed" ->
               [next EXCEPT !.processed_count = @ + Len(file_paths)]
          [] outcome = "raised" -> next
          [] OTHER -> [next EXCEPT !.unmatched_files = @ \o file_paths]

\* the local variables after the item with these files ended with outcome
AfterItem(l, outcome, file_paths) ==
    LET next == [l EXCEPT !.item_log = Append(@, outcome), !.i = @ + 1]
    IN  CASE outcome = "processed" ->
               [next EXCEPT !.processed_count = @ + Len(file_paths)]
          [] outcome = "raised" -> item_except(next, file_paths)
          [] OTHER -> [next EXCEPT !.unmatched_files = @ \o file_paths]

RECURSIVE MoveUnmatchedFrom(_, _, _, _)
\* the loop at lines 138-139 over files[j..]
MoveUnmatchedFrom(o, files, j, env) ==
    IF j > Len(files)
    THEN { [fs |-> o.fs, operations |-> o.operations, moved |-> <<>>] }
    ELSE UNION { { [fs |-> rest.fs, operations |-> rest.operations,
                    moved |-> out.moved \o rest.moved] :
                     rest \in MoveUnmatchedFrom([o EXCEPT !.fs = out.fs,
                                                          !.operations = out.operations],
                                                files, j + 1, env) } :
                   out \in move_to_unmatched(o, files[j], env) }

MainInit ==
    /\ NameIdle /\ ProcIdle
    /\ dry_run \in BOOLEAN /\ country_folder \in BOOLEAN
    /\ operations = <<>>
    /\ fs = MainInitFs /\ fs0 = fs
    /\ moves = <<>>
    /\ last = [op |-> "none", ret |-> TRUE, n |-> 0]

\* the disk, the log and the local variables after a step with result out
MainStep(out, l, next_pc) ==
    /\ fs' = out.fs
    /\ operations' = out.operations
    /\ moves' = moves \o out.moved
    /\ locals' = l
    /\ pc' = IF l.exception THEN "aborted" ELSE next_pc
    /\ UNCHANGED <<dry_run, country_folder, fs0, last, requests>>
    /\ UNCHANGED nameVars

\* what a run is given: anything in the first run; in the second run the type
\* and the answers of the first (no parse, or a parse and a match), and nothing
\* fails
RunAnswers(all, what) ==
    IF last.n = 0 THEN all
    ELSE CASE what = "parse" ->
                IF last.outcome = "no_parse" THEN {NoAi} ELSE all \ {NoAi}
           [] what = "search" -> { a \in all : a.kind = "match" }
           [] what = "io" -> {FALSE}
           [] what = "refused" -> { {} }
           [] what = "net" -> {TRUE}
           [] what = "type" -> {last.type}
           [] OTHER -> all

\* lines 50-59 and, for TV, the grouping at lines 100-108
MainScan ==
    /\ pc = "idle"
    /\ \E type \in RunAnswers({"movie", "tv"}, "type"),
          media_files \in WalkOrders(scan_directory(fs, P_lib)) :
         MainStep(ItemEnd(Organizer, "scan"),
                  [type |-> type, path |-> P_lib, media_files |-> media_files,
                   tv_folders |-> IF type = "tv" THEN tv_folders(media_files, P_lib) ELSE <<>>,
                   i |-> 1, unmatched_files |-> <<>>, processed_count |-> 0,
                   item_log |-> <<>>, exception |-> FALSE,
                   unmatched_moved |-> 0, cleanup_reached |-> FALSE, cleanup_called |-> FALSE,
                   summary |-> <<>>],
                  IF media_files = <<>> THEN "done" ELSE "loop")

\* one turn of the movie loop, lines 63-96
ProcessMovie ==
    /\ pc = "loop" /\ locals.type = "movie"
    /\ locals.i <= Len(locals.media_files)
    /\ \E parsed_info \in RunAnswers(ParseAnswers, "parse"),
          tmdb_info \in RunAnswers(MovieSearchAnswers, "search"),
          io \in RunAnswers(BOOLEAN, "io"), net \in RunAnswers(BOOLEAN, "net"),
          o \in {Organizer} :
         \E out \in movie_item(o, locals.media_files[locals.i], locals.path, parsed_info,
                               tmdb_info,
                               [io |-> IF io THEN {locals.media_files[locals.i].path} ELSE {},
                                net |-> net]) :
           MainStep(out, AfterItem(locals, out.outcome, <<locals.media_files[locals.i].path>>),
                    IF locals.i < Len(locals.media_files) THEN "loop" ELSE "unmatched")

\* one turn of the TV loop, lines 110-133
ProcessTvFolder ==
    /\ pc = "loop" /\ locals.type = "tv"
    /\ locals.i <= Len(locals.tv_folders)
    /\ \E parsed_info \in RunAnswers(ParseAnswers, "parse"),
          tmdb_info \in RunAnswers(TvSearchAnswers, "search"),
          io \in RunAnswers(BOOLEAN, "io"), season \in SeasonAnswers, o \in {Organizer} :
         \E out \in tv_item(o, locals.tv_folders[locals.i].file_paths, locals.path, parsed_info,
                            tmdb_info,
                            [io |-> IF io THEN {locals.tv_folders[locals.i].file_paths[1]} ELSE {},
                             season |-> season]) :
           MainStep(out, AfterItem(locals, out.outcome, locals.tv_folders[locals.i].file_paths),
                    IF locals.i < Len(locals.tv_folders) THEN "loop" ELSE "unmatched")

\* lines 136-139
MoveUnmatchedFiles ==
    /\ pc = "unmatched"
    /\ \E io \in RunAnswers(SUBSET SeqToSet(locals.unmatched_files), "refused"),
          o \in {Organizer} :
         \E out \in MoveUnmatchedFrom(o, locals.unmatched_files, 1, [io |-> io]) :
           MainStep(out, [locals EXCEPT !.unmatched_moved = Len(locals.unmatched_files)],
                    "cleanup")

\* lines 142-143
MainCleanup ==
    /\ pc = "cleanup"
    /\ \E io \in RunAnswers(SUBSET {P_dl}, "refused"), o \in {Organizer} :
         \E out \in (IF dry_run THEN { ItemEnd(o, "skipped") }
                     ELSE cleanup_unwanted(o, locals.path, [io |-> io])) :
           MainStep(out, [locals EXCEPT !.cleanup_reached = TRUE, !.cleanup_called = ~dry_run],
                    "summary")

\* lines 146-159
MainSummary ==
    /\ pc = "summary"
    /\ MainStep(ItemEnd(Organizer, "summary"),
                [locals EXCEPT !.summary = << [processed |-> locals.processed_count,
                                               unmatched |-> Len(locals.unmatched_files)] >>],
                "done")

\* the program is started again, live, over the scan root as a run left it in
\* which the parser had no answer for any item, or every item was organized
MainRunAgain ==
    /\ pc = "done" /\ last.n = 0
    /\ ~dry_run /\ locals.media_files # <<>>
    /\ \E outcome \in {"no_parse", "processed"} :
         \A k \in 1..Len(locals.item_log) : locals.item_log[k] = outcome
    /\ pc' = "idle"
    /\ locals' = <<>>
    /\ last' = [op |-> "none", ret |-> TRUE, n |-> 1, fs |-> fs, type |-> locals.type,
                outcome |-> locals.item_log[1]]
    /\ UNCHANGED <<dry_run, country_folder, operations, fs, fs0, moves, requests>>
    /\ UNCHANGED nameVars

MainNext ==
    \/ MainScan
    \/ ProcessMovie
    \/ ProcessTvFolder
    \/ MoveUnmatchedFiles
    \/ MainCleanup
    \/ MainSummary
    \/ MainRunAgain

SpecMain == MainInit /\ [][MainNext]_vars

\* the files of the k-th item of the loop
ItemFiles(l, k) ==
    IF l.type = "movie" THEN << l.media_files[k].path >> ELSE l.tv_folders[k].file_paths

ItemCount(l) == IF l.type = "movie" THEN Len(l.media_files) ELSE Len(l.tv_folders)

\* C10: an item that raises is caught at the item and no item's failure ends the run
\* (of the three calls in an item's try block only the search lets an exception out:
\* parse_with_ai and the organize calls catch their own): the run is never aborted; the files
\* of every item that raised are in unmatched_files; while the run is in the loop
\* there is a next item to process and once the loop is left every item has been
\* through it; and at the end every unmatched file was handed to move_to_unmatched,
\* the cleanup step was reached (cleanup_unwanted is called in a live run) and the
\* summary was shown.
C10_ItemFailureDoesNotEndTheRun ==
    /\ pc # "aborted"
    /\ pc # "idle" =>
          /\ pc = "loop" => locals.i <= ItemCount(locals)
          /\ \A k \in 1..Len(locals.item_log) :
                locals.item_log[k] = "raised" =>
                    \A n \in 1..Len(ItemFiles(locals, k)) :
                        ItemFiles(locals, k)[n] \in SeqToSet(locals.unmatched_files)
          /\ pc \in {"unmatched", "cleanup", "summary", "done"} =>
                Len(locals.item_log) = ItemCount(locals)
          /\ (pc = "done" /\ locals.media_files # <<>>) =>
                /\ locals.unmatched_moved = Len(locals.unmatched_files)
                /\ locals.cleanup_reached /\ locals.cleanup_called = ~dry_run
                /\ locals.summary = << [processed |-> locals.processed_count,
                                        unmatched |-> Len(locals.unmatched_files)] >>

\* C10 witness: the first item raised, a later one was organized on disk, and the
\* run ended with the summary
C10_Witness ==
    /\ pc = "done" /\ ~dry_run
    /\ Len(locals.item_log) >= 2
    /\ locals.item_log[1] = "raised"
    /\ locals.item_log[Len(locals.item_log)] = "processed"
    /\ moves # <<>>
    /\ locals.unmatched_moved >= 1

-----------------------------------------------------------------------------
(* Preview against execution: each call is made on the same disk by a       *)
(* preview organizer and by a live one; the disk follows the live call and  *)
(* the operations the preview logged are kept next to the moves executed.   *)

\* a second release of the same film, in a download folder of its own
P_dl2 == PathJoin(P_lib, <<100, 50>>)
F_movie2 == PathJoin(P_dl2, <<87, 46, 49, 48, 56, 48, 112, 46, 109, 107, 118>>)
F_subs_en2 == PathJoin(PathJoin(P_dl2, <<83, 117, 98, 115>>), <<101, 110, 46, 115, 114, 116>>)

\* the folder an earlier run made for the film, with the sidecars of that run
P_prev ==
    PathJoin(P_lib, _generate_movie_folder_name(
                        CHOOSE mi \in OrgMovieInfos : Truthy(mi.poster_path), NoAi))
F_prev_nfo == PathJoin(P_prev, <<109, 101, 100, 105, 97, 95, 105, 110, 102, 111, 46, 110, 102, 111>>)
F_prev_poster == PathJoin(P_prev, <<112, 111, 115, 116, 101, 114, 46, 106, 112, 103>>)

PlanInitFs ==
    [files |-> [p \in {F_movie, F_sub, F_subs_en, F_movie2, F_subs_en2, F_ep1, F_ep2,
                       F_prev_nfo, F_prev_poster} |->
                   <<"src", p>>],
     dirs |-> OrgInitFs.dirs \cup {P_dl2, PathJoin(P_dl2, <<83, 117, 98, 115>>), P_prev}]

PlanInit ==
    /\ NameIdle /\ ProcIdle
    /\ dry_run = FALSE /\ country_folder \in BOOLEAN
    /\ operations = <<>>
    /\ fs = PlanInitFs /\ fs0 = fs
    /\ moves = <<>>
    /\ last = [op |-> "none", ret |-> TRUE, n |-> 0, executed |-> <<>>, plans |-> { <<>> }]

\* by_mode[d]: the outcomes of the call with dry_run = d
BothModes(op, by_mode) ==
    \E live \in by_mode[FALSE] :
        /\ fs' = live.fs
        /\ moves' = moves \o live.moved
        /\ last' = [op |-> op, ret |-> live.ret, n |-> last.n + 1,
                    executed |-> live.moved,
                    plans |-> { SubSeq(plan.operations, Len(operations) + 1,
                                       Len(plan.operations)) : plan \in by_mode[TRUE] }]
        /\ UNCHANGED <<dry_run, country_folder, operations, fs0>>
        /\ UNCHANGED nameVars
        /\ UNCHANGED procVars

PlanOrganizeMovie ==
    /\ last.n < MaxOps
    /\ \E mi \in OrgMovieInfos, source_path \in {F_movie, F_movie2}, o \in {Organizer} :
         BothModes("organize_movie",
                   [d \in BOOLEAN |->
                      organize_movie([o EXCEPT !.dry_run = d], mi, source_path, P_lib, NoAi,
                                     [io |-> {}, net |-> TRUE])])

PlanOrganizeTvShow ==
    /\ last.n < MaxOps
    /\ \E si \in OrgShowInfos, season \in SeasonAnswers, o \in {Organizer} :
         BothModes("organize_tv_show",
                   [d \in BOOLEAN |->
                      organize_tv_show([o EXCEPT !.dry_run = d], si, <<F_ep1, F_ep2>>, P_lib,
                                       TRUE, NoAi, [io |-> {}, season |-> season])])

PlanMoveToUnmatched ==
    /\ last.n < MaxOps
    /\ \E file_path \in {F_movie, F_sub, F_ep1, F_ep2}, o \in {Organizer} :
         BothModes("move_to_unmatched",
                   [d \in BOOLEAN |->
                      move_to_unmatched([o EXCEPT !.dry_run = d], file_path, [io |-> {}])])

PlanCleanupUnwanted ==
    /\ last.n < MaxOps
    /\ \E o \in {Organizer} :
         BothModes("cleanup_unwanted",
                   [d \in BOOLEAN |->
                      cleanup_unwanted([o EXCEPT !.dry_run = d], P_lib, [io |-> {}])])

PlanNext ==
    \/ PlanOrganizeMovie
    \/ PlanOrganizeTvShow
    \/ PlanMoveToUnmatched
    \/ PlanCleanupUnwanted

SpecPlan == PlanInit /\ [][PlanNext]_vars

RECURSIVE IsSubSeqOf(_, _)
\* the moves of s occur in t, in the same order, with the same source and destination
IsSubSeqOf(s, t) ==
    IF s = <<>> THEN TRUE
    ELSE IF t = <<>> THEN FALSE
    ELSE IF Head(s).source = Head(t).source /\ Head(s).destination = Head(t).destination
    THEN IsSubSeqOf(Tail(s), Tail(t))
    ELSE IsSubSeqOf(s, Tail(t))

\* C12: every move the live call executed (with the destination it asked for) is in
\* the log the preview of the same call wrote, as an operation with the same
\* source and the same destination, in the order of execution.
C12_PreviewLogsEveryLiveMove ==
    \E plan \in last.plans : IsSubSeqOf(last.executed, plan)

\* C13: no live move replaces a file that was at its destination: every file the
\* disk held at the start is still on the disk, at its place or where a move put it.
C13_NoMoveReplacesAFile ==
    \A p \in DOMAIN fs0.files : \E q \in DOMAIN fs.files : fs.files[q] = fs0.files[p]

\* C14: in country-folder mode no country folder that holds organized content is
\* moved to Unwanted: no media file lies under Unwanted/<country segment>/, for any
\* country segment the organizer produces.
C14_CountryFolderIsNotUnwanted ==
    country_folder =>
        ~\E p \in DOMAIN fs.files :
            /\ Len(p) >= 4
            /\ p[2] = <<85, 110, 119, 97, 110, 116, 101, 100>>
            /\ p[3] \in { _get_country_folder_name(mi) : mi \in OrgMovieInfos }
            /\ fs.files[p][1] = "src"

\* C15: in country-folder mode organize_tv_show, for a show without a known origin
\* country, succeeds and puts the episodes under the country segment Unknown_Unknown.
C15_TvShowWithoutCountryIsOrganized ==
    (country_folder /\ last.op = "organize_tv_show") =>
        /\ last.ret
        /\ \A i \in DOMAIN moves :
              moves[i].source \in {F_ep1, F_ep2} =>
                  /\ Len(moves[i].destination) = 5
                  /\ moves[i].destination[2] = <<85, 110, 107, 110, 111, 119, 110, 95, 85, 110, 107, 110, 111, 119, 110>>

\* C16: at the end of a live run every unmatched file that was moved to the folder
\* Unmatched next to it is still there, as <its directory>/Unmatched/<its name>:
\* the cleanup pass has not relocated it.
C16_UnmatchedFileStaysInUnmatched ==
    (pc = "done" /\ ~dry_run /\ locals.media_files # <<>>) =>
        \A n \in 1..Len(locals.unmatched_files) :
            LET file_path == locals.unmatched_files[n]
                dest_path == PathJoin(PathJoin(DirName(file_path), <<85, 110, 109, 97, 116, 99, 104, 101, 100>>),
                                      BaseName(file_path))
            IN  (\E i \in DOMAIN moves : /\ moves[i].source = file_path
                                         /\ moves[i].final = dest_path)
                    => FsIsFile(fs, dest_path)

\* C17: in a live run, when the primary move of the movie file fails (the file is
\* still at its source after organize_movie), the item is aborted: organize_movie
\* reports failure, no related file was moved and no sidecar was written.
C17_FailedPrimaryMoveAbortsTheItem ==
    (~dry_run /\ last.op = "organize_movie" /\ last.n = 1 /\ FsIsFile(fs, F_movie)) =>
        /\ ~last.ret
        /\ moves = <<>>
        /\ DOMAIN fs.files = DOMAIN fs0.files

-----------------------------------------------------------------------------
(* Parsing a name with the local model (scanner.py parse_with_ai) and what  *)
(* the movie loop of main.py does with the result.                          *)

\* the items one run goes through
MaxParses == 2

\* what _call_local_ai hands back: None or '' (the call failed), a text in which
\* no JSON is found, a text whose JSON is no object, or a text whose JSON is an
\* object with some of the keys; "raises": an exception inside the try block of
\* parse_with_ai (the prompt cannot be built)
AiResponses ==
    { [kind |-> "api_failed"], [kind |-> "no_json"], [kind |-> "not_object"],
      [kind |-> "raises"] }
    \cup { [kind |-> "object",
            data |-> [k \in keys |->
                        [title |-> S_ZhanZheng, original_title |-> S_Warfare,
                         year |-> 2025, confidence |-> 1][k]]] :
             keys \in SUBSET {"title", "original_title", "year", "confidence"} }

\* an object without one of the three names is turned away
_parse_ai_response_RequireFields(response) ==
    IF response.kind # "object" THEN Nothing
    ELSE IF ~({"title", "original_title", "year"} \subseteq DOMAIN response.data) THEN Nothing
    ELSE Some([title |-> response.data.title,
               original_title |-> response.data.original_title,
               year |-> response.data.year, confidence |-> 0])

\* _parse_ai_response(response, media_type): the ParsedInfo or None
_parse_ai_response(response) ==
    LET get(data, key, default) == IF key \in DOMAIN data THEN data[key] ELSE default
    IN  IF response.kind # "object" THEN Nothing
        ELSE Some([title |-> get(response.data, "title", None),
                   original_title |-> get(response.data, "original_title", None),
                   year |-> get(response.data, "year", NoYear),
                   confidence |-> get(response.data, "confidence", 0)])

\* parse_with_ai(name, media_type, folder_context) when the local model answers
\* response: [ret, summary, scan_results], the last two being scan_session's
parse_with_ai(scan_session, response, media_type) ==
    LET summary == scan_session.summary
        logged(ret, summary_, parsed_result) ==
            [ret |-> ret, summary |-> summary_,
             scan_results |-> Append(scan_session.scan_results, parsed_result)]
        counted(parsed_result) ==
            IF parsed_result.present
            THEN logged(parsed_result,
                        IF media_type = "movie"
                        THEN [summary EXCEPT !.successful_parses = @ + 1, !.movies = @ + 1]
                        ELSE [summary EXCEPT !.successful_parses = @ + 1, !.tv_shows = @ + 1],
                        "parsed")
            ELSE logged(Nothing, [summary EXCEPT !.failed_parses = @ + 1], "parsing_failed")
    IN  IF response.kind = "raises"
        THEN logged(Nothing, [summary EXCEPT !.failed_parses = @ + 1], "error")
        ELSE IF response.kind = "api_failed"
        THEN logged(Nothing, [summary EXCEPT !.failed_parses = @ + 1], "ai_api_failed")
        ELSE counted(_parse_ai_response(response))

\* the count of the results is not taken
save_scan_session_NoTotal(scan_session) == scan_session

\* save_scan_session(): scan_session as it is written to the log file
save_scan_session(scan_session) ==
    [scan_session EXCEPT !.summary.total_files = Len(scan_session.scan_results)]

\* search_tv_show(title, year) when the provider answers the n-th request with
\* answers[n] (TRUE: a result): [requests, found]
search_tv_show(title, year, answers) ==
    LET query == [query |-> title, first_air_date_year |-> year]
    IN  IF answers[1] THEN [requests |-> << query >>, found |-> TRUE]
        ELSE [requests |-> << query, query >>, found |-> answers[2]]

ParseInit ==
    /\ NameIdle /\ OrgIdle
    /\ pc = "loop"
    /\ \E type \in {"movie", "tv"} :
         locals = [type |-> type, i |-> 1,
                   summary |-> [total_files |-> 0, successful_parses |-> 0,
                                failed_parses |-> 0, movies |-> 0, tv_shows |-> 0],
                   scan_results |-> <<>>,
                   parsed_info |-> Nothing, unmatched_files |-> <<>>, processed |-> <<>>,
                   responses |-> <<>>]
    /\ requests = <<>>

\* main.py 65-76: the item is parsed; without a parsed_info it goes to the
\* unmatched list and the loop continues
ParseWithAi ==
    /\ pc = "loop" /\ locals.i <= MaxParses
    /\ \E response \in AiResponses :
         LET out == parse_with_ai([summary |-> locals.summary,
                                   scan_results |-> locals.scan_results],
                                  response, locals.type)
             l == [locals EXCEPT !.summary = out.summary,
                                 !.scan_results = out.scan_results,
                                 !.parsed_info = out.ret,
                                 !.responses = Append(@, response)]
         IN  IF out.ret.present
             THEN locals' = l /\ pc' = "parsed"
             ELSE /\ locals' = [l EXCEPT !.unmatched_files = Append(@, l.i), !.i = @ + 1]
                  /\ pc' = "loop"
    /\ UNCHANGED requests
    /\ UNCHANGED nameVars
    /\ UNCHANGED orgVars

\* main.py 78-92: search_movie with the parsed names; the provider answers the
\* attempt hit_at with a result and the ones before it with none (0: none at all)
MatchParsedMovie ==
    /\ pc = "parsed" /\ locals.type = "movie"
    /\ LET p == locals.parsed_info.value
           attempts == search_attempts(p.title, p.year, p.original_title)
       IN  \E hit_at \in 0..Len(attempts) :
             /\ requests' = requests
                    \o [n \in 1..(IF hit_at = 0 THEN Len(attempts) ELSE hit_at) |->
                          [item |-> locals.i, attempt |-> attempts[n]]]
             /\ locals' = IF hit_at = 0
                          THEN [locals EXCEPT !.unmatched_files = Append(@, locals.i),
                                              !.i = @ + 1]
                          ELSE [locals EXCEPT !.processed = Append(@, locals.i), !.i = @ + 1]
    /\ pc' = "loop"
    /\ UNCHANGED nameVars
    /\ UNCHANGED orgVars

\* main.py 117-129: search_tv_show with the parsed title and year
MatchParsedTvShow ==
    /\ pc = "parsed" /\ locals.type = "tv"
    /\ \E answers \in [1..2 -> BOOLEAN] :
         LET p == locals.parsed_info.value
             out == search_tv_show(p.title, p.year, answers)
         IN  /\ requests' = requests
                    \o [n \in 1..Len(out.requests) |->
                          [item |-> locals.i, attempt |-> out.requests[n]]]
             /\ locals' = IF out.found
                          THEN [locals EXCEPT !.processed = Append(@, locals.i), !.i = @ + 1]
                          ELSE [locals EXCEPT !.unmatched_files = Append(@, locals.i),
                                              !.i = @ + 1]
    /\ pc' = "loop"
    /\ UNCHANGED nameVars
    /\ UNCHANGED orgVars

\* main.py 146: the session is saved when the loop is over
SaveScanSession ==
    /\ pc = "loop"
    /\ LET out == save_scan_session([summary |-> locals.summary,
                                     scan_results |-> locals.scan_results])
       IN  locals' = [locals EXCEPT !.summary = out.summary]
    /\ pc' = "saved"
    /\ UNCHANGED requests
    /\ UNCHANGED nameVars
    /\ UNCHANGED orgVars

ParseNext ==
    \/ ParseWithAi
    \/ MatchParsedMovie
    \/ MatchParsedTvShow
    \/ SaveScanSession

SpecParse == ParseInit /\ [][ParseNext]_vars

C19_SearchMovieNeverRaises ==
    pc # "raised"

-----------------------------------------------------------------------------
(* The video-info extractor on release names *)

\* original file names: a title, then for each family nothing, one token or two
\* tokens of different patterns, and the example of the documentation
VideoFileNames ==
    { <<75, 46>> \o r \o f \o c \o a \o <<109, 107, 118>> :
        r \in { <<>>, <<49, 48, 56, 48, 112, 46>>, <<55, 50, 48, 80, 46>>, <<72, 68, 46, 52, 56, 48, 112, 46>>, <<52, 75, 46>>, <<85, 72, 68, 46, 50, 49, 54, 48, 112, 46>>,
                <<50, 49, 54, 48, 80, 46>>, <<52, 107, 46, 55, 50, 48, 112, 46>> },
        f \in { <<>>, <<66, 108, 117, 82, 97, 121, 46>>, <<119, 101, 98, 46>>, <<68, 86, 68, 46, 66, 68, 46>> },
        c \in { <<>>, <<120, 50, 54, 52, 46>>, <<72, 69, 86, 67, 46>>, <<88, 118, 105, 68, 46, 120, 50, 54, 53, 46>> },
        a \in { <<>>, <<68, 84, 83, 46>>, <<55, 46, 49, 46, 70, 76, 65, 67, 46>>, <<65, 116, 109, 111, 115, 46>> } }
    \cup { <<75, 105, 108, 108, 46, 67, 111, 109, 109, 97, 110, 100, 46, 50, 48, 49, 54, 46, 49, 48, 56, 48, 112, 46, 66, 108, 117, 82, 97, 121, 46, 120, 50, 54, 52, 45, 71, 82, 79, 85, 80, 46, 109, 107, 118>> }

InfoInit ==
    /\ NameIdle /\ OrgIdle
    /\ pc = "idle"
    /\ \E filename \in VideoFileNames : locals = [filename |-> filename]
    /\ requests = <<>>

ExtractVideoInfo ==
    /\ pc = "idle"
    /\ locals' = [filename |-> locals.filename,
                  video_info |-> _extract_video_info_from_filename(locals.filename)]
    /\ pc' = "returned"
    /\ UNCHANGED requests
    /\ UNCHANGED nameVars
    /\ UNCHANGED orgVars

SpecInfo == InfoInit /\ [][ExtractVideoInfo]_vars

C21_ForcedResolutionIgnoresCase ==
    (pc = "returned" /\ (\/ Contains(Lower(locals.filename), <<52, 107>>)
                         \/ Contains(Lower(locals.filename), <<50, 49, 54, 48, 112>>))) =>
        HasPrefix(locals.video_info, <<50, 49, 54, 48, 112, 45>>)

\* C22: in a live run the generation of sidecars never overwrites: over every step
\* a file that is at the path of a movie NFO, a poster or a season NFO keeps its
\* content as long as it stays at that path.
C22_SidecarsAreNotOverwritten ==
    [][\A p \in DOMAIN fs.files :
          (/\ BaseName(p) \in { <<109, 101, 100, 105, 97, 95, 105, 110, 102, 111, 46, 110, 102, 111>>, <<112, 111, 115, 116, 101, 114, 46, 106, 112, 103>>, <<115, 101, 97, 115, 111, 110, 46, 110, 102, 111>> }
           /\ p \in DOMAIN fs'.files)
              => fs'.files[p] = fs.files[p]]_vars

\* C22 witness: a film was moved into the folder that already held media_info.nfo
\* and poster.jpg, and both still have the content they had
C22_Witness ==
    /\ last.op = "organize_movie"
    /\ \E i \in DOMAIN moves : DirName(moves[i].final) = P_prev
    /\ fs.files[F_prev_nfo] = <<"src", F_prev_nfo>>
    /\ fs.files[F_prev_poster] = <<"src", F_prev_poster>>

\* C23: every parse_with_ai call adds one entry to scan_results and increments
\* exactly one of successful_parses and failed_parses, and successful_parses =
\* movies + tv_shows; after save_scan_session total_files is the number of calls,
\* which is successful_parses + failed_parses.
C23_SessionSummaryAddsUp ==
    LET summary == locals.summary
    IN  /\ Len(locals.scan_results) = Len(locals.responses)
        /\ summary.successful_parses + summary.failed_parses = Len(locals.responses)
        /\ summary.successful_parses = summary.movies + summary.tv_shows
        /\ summary.successful_parses
              = Cardinality({ n \in 1..Len(locals.scan_results) :
                                locals.scan_results[n] = "parsed" })
        /\ pc = "saved" =>
              /\ summary.total_files = Len(locals.responses)
              /\ summary.total_files = summary.successful_parses + summary.failed_parses

\* C23 witness: a call that parsed, a call whose try block raised, then the save
C23_Witness ==
    /\ pc = "saved"
    /\ locals.scan_results = << "parsed", "error" >>
    /\ locals.summary.total_files = 2
    /\ locals.summary.successful_parses = 1 /\ locals.summary.failed_parses = 1

\* C27: search_tv_show sends at most two search requests for an item, and when it
\* sends a second one that request differs from the first: it asks for another
\* title.
C27_SecondTvQueryUsesAnotherTitle ==
    locals.type = "tv" =>
        \A n \in 1..MaxParses :
            LET sent == SelectSeq(requests, LAMBDA r : r.item = n)
            IN  /\ Len(sent) <= 2
                /\ Len(sent) = 2 => sent[2].attempt # sent[1].attempt


\* C24: a second live run over the scan root as a completed live run left it, given
\* the same type and the same answers, moves or renames no file: after it every
\* file is where the first run left it.
C24_RescanMovesNothing ==
    (last.n = 1 /\ pc = "done") => DOMAIN fs.files = DOMAIN last.fs.files

\* the files of the items of the finished loop that ended with outcome "processed"
ProcessedFiles(l) ==
    { p \in { l.media_files[n].path : n \in 1..Len(l.media_files) } :
        \E k \in 1..Len(l.item_log) :
            l.item_log[k] = "processed" /\ p \in SeqToSet(ItemFiles(l, k)) }

\* C30: once the item loop of a run has ended, processed_count plus the length of
\* unmatched_files is the number of media files the scan returned; processed_count
\* counts the files of the processed items, none of which is in unmatched_files, and
\* no path is in unmatched_files twice.
C30_EveryFileIsAccountedOnce ==
    (pc \in {"unmatched", "cleanup", "summary", "done"}) =>
        /\ locals.processed_count + Len(locals.unmatched_files) = Len(locals.media_files)
        /\ locals.processed_count = Cardinality(ProcessedFiles(locals))
        /\ ProcessedFiles(locals) \cap SeqToSet(locals.unmatched_files) = {}
        /\ Cardinality(SeqToSet(locals.unmatched_files)) = Len(locals.unmatched_files)

\* a TV run has ended in which one folder was organized and another raised
C30_Witness ==
    /\ pc = "done"
    /\ locals.type = "tv"
    /\ locals.processed_count >= 1
    /\ \E k \in 1..Len(locals.item_log) : locals.item_log[k] = "raised"

\* the detail answer search_movie got before it returned
LastDetails == requests[Len(requests)].response

\* C25: when the provider's original title is not CJK and the alternate titles
\* hold an entry of CN, TW or HK with a CJK title, the first such entry is the
\* title search_movie returns; the translations do not replace it.
C25_FirstAlternateTitleIsFinal ==
    (/\ pc = "returned" /\ locals.ret.present
     /\ requests # <<>> /\ requests[Len(requests)].endpoint = "/movie/{id}"
     /\ ~LastDetails.fail
     /\ ~_is_chinese_text(locals.ret.value.original_title)) =>
        \A i \in 1..Len(LastDetails.alternative_titles) :
            LET qualifies(j) ==
                    /\ LastDetails.alternative_titles[j].iso_3166_1 \in {"CN", "TW", "HK"}
                    /\ _is_chinese_text(LastDetails.alternative_titles[j].title)
            IN  (qualifies(i) /\ \A j \in 1..(i - 1) : ~qualifies(j)) =>
                    locals.ret.value.title = LastDetails.alternative_titles[i].title

\* C26: a combined query is sent only when both titles are present and distinct
\* and the year is known; with no localized title, an original title and a year,
\* the first query is the original title with the year.
C26_CombinedQueryNeedsBothTitles ==
    (pc \in {"attempts", "returned", "raised"} /\ locals.k > 1) =>
        /\ \A n \in 1..(locals.k - 1) :
               locals.search_attempts[n].strategy = "combined titles + year" =>
                   /\ Truthy(locals.title) /\ Truthy(locals.original_title)
                   /\ locals.title # locals.original_title
                   /\ YearTruthy(locals.year)
        /\ (~Truthy(locals.title) /\ Truthy(locals.original_title) /\ YearTruthy(locals.year)) =>
               /\ SearchRequests[1].query = locals.original_title
               /\ SearchRequests[1].year = locals.year

-----------------------------------------------------------------------------
(* The season grouper on its own: organizer.py _group_files_by_season *)

\* the longest list of episode paths
MaxPaths == 3

\* episode paths, as organize_tv_show gets them from the scan
EpisodePaths ==
    { << <<115, 104, 111, 119>>, <<83, 48, 49>>, <<97, 46, 109, 107, 118>> >>,
      << <<115, 104, 111, 119>>, <<115, 50>>, <<83, 101, 97, 115, 111, 110, 32, 51>>, <<120, 46, 83, 48, 52, 69, 48, 49, 46, 109, 107, 118>> >>,
      << <<115, 104, 111, 119>>, <<83, 101, 97, 115, 111, 110, 32, 51>>, <<120, 46, 83, 48, 52, 69, 48, 50, 46, 109, 107, 118>> >>,
      << <<115, 104, 111, 119>>, <<83, 69, 65, 83, 79, 78, 48, 51>>, <<98, 46, 109, 107, 118>> >>,
      << <<115, 104, 111, 119>>, <<120, 46, 83, 48, 52, 69, 48, 51, 46, 109, 107, 118>> >>,
      << <<115, 104, 111, 119>>, <<99, 46, 109, 107, 118>> >>,
      << <<115, 104, 111, 119>>, <<115, 49, 50, 51>>, <<100, 46, 109, 107, 118>> >>,
      << <<115, 104, 111, 119>>, <<101, 120, 116, 114, 97, 115>>, <<83, 101, 97, 115, 111, 110, 32, 32, 49, 50>>, <<115, 53>>, <<101, 46, 115, 49, 101, 49, 46, 109, 107, 118>> >> }

GroupInit ==
    /\ NameIdle /\ OrgIdle
    /\ pc = "idle"
    /\ \E n \in 1..MaxPaths :
         \E file_paths \in [1..n -> EpisodePaths] :
            /\ \A a, b \in 1..n : a # b => file_paths[a] # file_paths[b]
            /\ locals = [file_paths |-> file_paths]
    /\ requests = <<>>

GroupFilesBySeason ==
    /\ pc = "idle"
    /\ locals' = [file_paths |-> locals.file_paths,
                  season_files |-> _group_files_by_season(locals.file_paths)]
    /\ pc' = "returned"
    /\ UNCHANGED requests
    /\ UNCHANGED nameVars
    /\ UNCHANGED orgVars

SpecGroup == GroupInit /\ [][GroupFilesBySeason]_vars

\* the number a text of one or two digits stands for
TwoDigits(t) == IF Len(t) = 1 THEN t[1] - 48 ELSE 10 * (t[1] - 48) + (t[2] - 48)

IsDigitsOfSeason(t) == Len(t) \in {1, 2} /\ \A i \in 1..Len(t) : t[i] \in 48..57

\* the season of a path as documented: the first folder s<NN>, else the first
\* folder season<spaces><NN>, else the first S<NN>E<M> in the file name, else 1
DocumentedSeason(p) ==
    LET folders == [i \in 1..(Len(p) - 1) |-> Lower(p[i])]
        f == Lower(p[Len(p)])
        isS(t) == Len(t) >= 2 /\ t[1] = 115 /\ IsDigitsOfSeason(Tail(t))
        afterSeason(t) == LStrip(SubSeq(t, 7, Len(t)))
        isSeason(t) == HasPrefix(t, <<115, 101, 97, 115, 111, 110>>) /\ IsDigitsOfSeason(afterSeason(t))
        sFolders == { i \in 1..Len(folders) : isS(folders[i]) }
        seasonFolders == { i \in 1..Len(folders) : isSeason(folders[i]) }
        tokenAt(i, n) ==
            /\ i + n + 2 <= Len(f)
            /\ f[i] = 115
            /\ \A j \in 1..n : f[i + j] \in 48..57
            /\ f[i + n + 1] = 101
            /\ f[i + n + 2] \in 48..57
        tokens == { i \in 1..Len(f) : tokenAt(i, 1) \/ tokenAt(i, 2) }
        Min(S) == CHOOSE i \in S : \A j \in S : i <= j
    IN  IF sFolders # {} THEN TwoDigits(Tail(folders[Min(sFolders)]))
        ELSE IF seasonFolders # {} THEN TwoDigits(afterSeason(folders[Min(seasonFolders)]))
        ELSE IF tokens # {}
             THEN TwoDigits(SubSeq(f, Min(tokens) + 1,
                                   Min(tokens) + (IF tokenAt(Min(tokens), 1) THEN 1 ELSE 2)))
        ELSE 1

\* C28: the buckets of _group_files_by_season have distinct keys, and the bucket
\* of a key holds, in input order, exactly the input paths whose documented season
\* is that key, at least one; so every input path is in exactly one bucket.
C28_GroupBySeasonPartitions ==
    (pc = "returned") =>
        LET g == locals.season_files
        IN  /\ \A a, b \in 1..Len(g) : a # b => g[a].season_num # g[b].season_num
            /\ \A k \in 1..Len(g) :
                   /\ g[k].files # <<>>
                   /\ g[k].files = SelectSeq(locals.file_paths,
                                             LAMBDA p : DocumentedSeason(p) = g[k].season_num)
            /\ \A i \in 1..Len(locals.file_paths) :
                   \E k \in 1..Len(g) : g[k].season_num = DocumentedSeason(locals.file_paths[i])

\* three paths were grouped into two buckets, one of them by a folder s<NN> that
\* outranks a Season folder and the token of the file name
C28_Witness ==
    /\ pc = "returned"
    /\ Len(locals.file_paths) = 3
    /\ Len(locals.season_files) = 2
    /\ \E k \in 1..2 :
          /\ locals.season_files[k].season_num = 2
          /\ Len(locals.season_files[k].files[1]) = 4

-----------------------------------------------------------------------------
(* Reading the local model's answer: scanner.py _extract_json_from_response,    *)
(* _parse_ai_response.  An answer is a sequence of pieces of text:              *)
(*   "{" and "}"   the braces                                                   *)
(*   "m1", "m2"    the members "title": "Warfare" and "title": "Foo"            *)
(*   "n"           the key of a nested object, "extra":                         *)
(*   "x"           a word of prose, with no brace and no backquote              *)
(*   "f"           a fence, three backquotes                                    *)
(*   "j"           the word json                                                *)
(*   "w"           a newline                                                    *)

\* the longest answer of the exhaustive part of the inputs
MaxTokens == 5

\* s.strip()
StripTokens(s) ==
    LET inked == { i \in 1..Len(s) : s[i] # "w" }
    IN  IF inked = {} THEN <<>>
        ELSE SubSeq(s, CHOOSE i \in inked : \A j \in inked : i <= j,
                       CHOOSE i \in inked : \A j \in inked : j <= i)

RECURSIVE JsonObject(_)
\* json.loads(s) for a text s of these pieces: [ok, title]; ~ok stands for
\* JSONDecodeError, title is data.get("title") of the object read
JsonObject(s) ==
    LET t == SelectSeq(s, LAMBDA c : c # "w")
        bad == [ok |-> FALSE, title |-> None]
    IN  IF Len(t) < 2 \/ t[1] # "{" \/ t[Len(t)] # "}" THEN bad
        ELSE IF Len(t) = 2 THEN [ok |-> TRUE, title |-> None]
        ELSE IF Len(t) = 3
             THEN CASE t[2] = "m1" -> [ok |-> TRUE, title |-> S_Warfare]
                    [] t[2] = "m2" -> [ok |-> TRUE, title |-> S_Foo]
                    [] OTHER -> bad
        ELSE IF t[2] = "n" /\ JsonObject(SubSeq(t, 3, Len(t) - 1)).ok
             THEN [ok |-> TRUE, title |-> None]
        ELSE bad

RECURSIVE BraceScan(_, _, _)
\* where the match of \{[^{}]*(?:\{[^{}]*\}[^{}]*)*\} that has read s up to k - 1
\* and is inside depth braces ends; 0 when it fails
BraceScan(s, k, depth) ==
    IF k > Len(s) THEN 0
    ELSE IF s[k] = "{" THEN (IF depth = 1 THEN BraceScan(s, k + 1, 2) ELSE 0)
    ELSE IF s[k] = "}" THEN (IF depth = 2 THEN BraceScan(s, k + 1, 1) ELSE k)
    ELSE BraceScan(s, k + 1, depth)

RECURSIVE BraceMatches(_, _)
\* re.findall(brace_pattern, s) from position i on
BraceMatches(s, i) ==
    IF i > Len(s) THEN <<>>
    ELSE LET e == IF s[i] = "{" THEN BraceScan(s, i + 1, 1) ELSE 0
         IN  IF e # 0 THEN <<SubSeq(s, i, e)>> \o BraceMatches(s, e + 1)
             ELSE BraceMatches(s, i + 1)

\* _extract_json_from_response(response): the text or None
_extract_json_from_response(response) ==
    LET fences == { i \in 1..Len(response) : response[i] = "f" }
        open == CHOOSE i \in fences : \A j \in fences : i <= j
        close == CHOOSE i \in fences \ {open} : \A j \in fences \ {open} : i <= j
        block == SubSeq(response,
                        IF open + 1 < close /\ response[open + 1] = "j"
                        THEN open + 2 ELSE open + 1,
                        close - 1)
        matches == BraceMatches(response, 1)
        valid == { n \in 1..Len(matches) : JsonObject(matches[n]).ok }
    IN  IF JsonObject(response).ok THEN Some(response)
        ELSE IF Cardinality(fences) >= 2 THEN Some(StripTokens(block))
        ELSE IF valid # {} THEN Some(matches[CHOOSE n \in valid : \A m \in valid : n <= m])
        ELSE Nothing

\* _parse_ai_response(response, media_type) on the text of the answer: the
\* ParsedInfo or None
_parse_ai_response_text(response) ==
    LET json_text == _extract_json_from_response(response)
    IN  IF ~json_text.present \/ json_text.value = <<>> THEN Nothing
        ELSE IF ~JsonObject(json_text.value).ok THEN Nothing
        ELSE Some([title |-> JsonObject(json_text.value).title,
                   original_title |-> None, year |-> NoYear, confidence |-> 0])

\* every answer of at most n pieces
TokenTexts(n) ==
    UNION { [1..k -> {"{", "}", "m1", "m2", "x", "f"}] : k \in 1..n }

\* answers: all short ones, and longer ones with a fenced block, the word json,
\* newlines, prose around an object, and nested objects
ResponseTexts ==
    TokenTexts(MaxTokens)
    \cup { << "f", "j", "w", "{", "m1", "}", "w", "f" >>,
           << "x", "w", "f", "w", "{", "m2", "}", "f", "x" >>,
           << "f", "j", "w", "x", "{", "m1", "}", "w", "f" >>,
           << "f", "x", "f", "w", "{", "m1", "}" >>,
           << "f", "j", "w", "{", "x", "}", "w", "f", "w", "{", "m1", "}" >>,
           << "x", "{", "x", "}", "x", "{", "m2", "}", "x", "{", "m1", "}" >>,
           << "{", "n", "{", "m1", "}", "}" >>,
           << "x", "{", "n", "{", "m1", "}", "}" >>,
           << "{", "x", "{", "m1", "}", "}" >>,
           << "w", "{", "w", "m2", "w", "}", "w" >> }

JsonInit ==
    /\ NameIdle /\ OrgIdle
    /\ pc = "idle"
    /\ \E response \in ResponseTexts : locals = [response |-> response]
    /\ requests = <<>>

ParseAiResponse ==
    /\ pc = "idle"
    /\ locals' = [response |-> locals.response,
                  json_text |-> _extract_json_from_response(locals.response),
                  ret |-> _parse_ai_response_text(locals.response)]
    /\ pc' = "returned"
    /\ UNCHANGED requests
    /\ UNCHANGED nameVars
    /\ UNCHANGED orgVars

SpecJson == JsonInit /\ [][ParseAiResponse]_vars

\* the spans {...} of s that are valid JSON objects
ValidSpans(s) ==
    { span \in (1..Len(s)) \X (1..Len(s)) :
        /\ span[1] < span[2]
        /\ s[span[1]] = "{" /\ s[span[2]] = "}"
        /\ JsonObject(SubSeq(s, span[1], span[2])).ok }

\* the valid span that starts first
FirstValidSpan(s) ==
    LET span == CHOOSE a \in ValidSpans(s) : \A b \in ValidSpans(s) : a[1] <= b[1]
    IN  SubSeq(s, span[1], span[2])

\* C29: an answer that holds a valid JSON object span, bare, in a fenced block or
\* among prose, gives a parse result, and the result is read from the first such
\* span, whatever invalid block or span precedes it.
C29_FirstValidSpanIsParsed ==
    (pc = "returned" /\ ValidSpans(locals.response) # {}) =>
        /\ locals.ret.present
        /\ locals.ret.value.title = JsonObject(FirstValidSpan(locals.response)).title
=============================================================================
